---- MODULE Spec2Model ----
(***************************************************************************)
(* A model of the WAL sender, src/backend/replication/walsender.c.         *)
(*                                                                         *)
(* Every sender process runs WalSenderMain: InitWalSnd, WalSndHandshake,   *)
(* the publication of the start point and WalSndLoop with XLogSend.  The   *)
(* shared state is the WalSnd slot array with one latch per slot, the WAL  *)
(* writer's flush pointer and the postmaster.  Signals (HUP, TERM, USR2,   *)
(* QUIT) are delivered between any two steps of a process whose signals    *)
(* are unblocked.                                                          *)
(*                                                                         *)
(* XLOG positions are pairs (xlogid, xrecoff).  The sizes keep the shape   *)
(* of the real ones (page | send size | segment | logical file, and one    *)
(* reserved segment between XLogFileSize and the width of xrecoff) at a    *)
(* scale a model checker can enumerate.                                    *)
(***************************************************************************)
EXTENDS Integers, Naturals, Sequences, FiniteSets, TLC

(***************************************************************************)
(* Sizes.                                                                  *)
(***************************************************************************)
\* bytes per WAL page (XLOG_BLCKSZ, scaled)
XLOG_BLCKSZ == 2
\* WAL payload bytes per message at most (MAX_SEND_SIZE: a whole number of pages)
MAX_SEND_SIZE == XLOG_BLCKSZ * 2
\* bytes per segment file (XLogSegSize: a whole number of send sizes)
XLogSegSize == MAX_SEND_SIZE * 1
\* segments per logical file; the last one, at XLogFileSize, does not exist
XLogSegsPerFile == 2
\* XLogFileSize = XLogSegsPerFile * XLogSegSize
XLogFileSize == XLogSegsPerFile * XLogSegSize
\* the width of xrecoff (uint32): one segment more than XLogFileSize
UINT32_MOD == (XLogSegsPerFile + 1) * XLogSegSize

\* max_wal_senders: the number of slots in WalSndCtl->walsnds
max_wal_senders == 1
\* the modelled stretch of WAL: WalHead bytes before the end of logical file 0 ...
WalHead == 5
\* ... and WalTail bytes of logical file 1
WalTail == 1

\* the sender processes of the model; process p has pid p
Procs == 1 .. 2

(***************************************************************************)
(* XLogRecPtr and its macros.                                              *)
(***************************************************************************)
Ptr(l, o) == [xlogid |-> l, xrecoff |-> o]

ZeroPtr == Ptr(0, 0)

XLByteLT(a, b) ==
    a.xlogid < b.xlogid \/ (a.xlogid = b.xlogid /\ a.xrecoff < b.xrecoff)

XLByteLE(a, b) ==
    a.xlogid < b.xlogid \/ (a.xlogid = b.xlogid /\ a.xrecoff <= b.xrecoff)

XLByteAdvance(recptr, nbytes) ==
    IF recptr.xrecoff + nbytes >= XLogFileSize
    THEN Ptr(recptr.xlogid + 1, recptr.xrecoff + nbytes - XLogFileSize)
    ELSE Ptr(recptr.xlogid, recptr.xrecoff + nbytes)

\* the positions the WAL writer can report as flushed, in the modelled stretch
FirstPtr == Ptr(0, XLogFileSize - WalHead)

LastPtr == Ptr(1, WalTail)

WalPtrs ==
    { Ptr(0, o) : o \in (XLogFileSize - WalHead) .. XLogFileSize }
        \cup { Ptr(1, o) : o \in 0 .. WalTail }

\* the start points a standby asks for: START_REPLICATION takes the position
\* as sent, so it may lie beyond what is flushed
StartPoints ==
    { FirstPtr, Ptr(0, XLogFileSize - XLOG_BLCKSZ), Ptr(0, XLogFileSize) }

(***************************************************************************)
(* XLogSend's choice of the slice [startptr, endptr) to send.              *)
(***************************************************************************)
\* a startptr that forgets to step over the reserved last segment
StartPtrNoSkip(sent) == sent

\* a startptr that resets xrecoff but stays in the old logical file
StartPtrSameLog(sent) ==
    IF sent.xrecoff >= XLogFileSize THEN Ptr(sent.xlogid, 0) ELSE sent

StartPtr(sent) ==
    IF sent.xrecoff >= XLogFileSize THEN Ptr(sent.xlogid + 1, 0) ELSE sent

\* endptr after advancing by MAX_SEND_SIZE, clamped to the logical file
CutPtrNoClamp(startptr) == XLByteAdvance(startptr, MAX_SEND_SIZE)

CutPtr(startptr) ==
    LET adv == XLByteAdvance(startptr, MAX_SEND_SIZE)
    IN  IF adv.xlogid # startptr.xlogid
        THEN Ptr(startptr.xlogid, XLogFileSize)
        ELSE adv

SendCaughtUp(startptr, SendRqstPtr) == XLByteLE(SendRqstPtr, CutPtr(startptr))

\* an endptr that is never backed off to SendRqstPtr
EndPtrNoBackOff(startptr, SendRqstPtr) ==
    LET cut == CutPtr(startptr)
    IN  Ptr(cut.xlogid, cut.xrecoff - (cut.xrecoff % XLOG_BLCKSZ))

\* an endptr that is not rounded down to a page boundary
EndPtrNoRound(startptr, SendRqstPtr) ==
    IF XLByteLE(SendRqstPtr, CutPtr(startptr)) THEN SendRqstPtr ELSE CutPtr(startptr)

EndPtr(startptr, SendRqstPtr) ==
    LET cut == CutPtr(startptr)
    IN  IF XLByteLE(SendRqstPtr, cut)
        THEN SendRqstPtr
        ELSE Ptr(cut.xlogid, cut.xrecoff - (cut.xrecoff % XLOG_BLCKSZ))

\* a payload length that is always a full message
NBytesFull(startptr, endptr) == MAX_SEND_SIZE

\* nbytes = endptr.xrecoff - startptr.xrecoff, in uint32
NBytes(startptr, endptr) == (endptr.xrecoff - startptr.xrecoff) % UINT32_MOD

(***************************************************************************)
(* State.                                                                  *)
(***************************************************************************)
VARIABLES
    walsnds,    \* WalSndCtl->walsnds[i]: pid, state, sentPtr
    latch,      \* walsnds[i].latch: is_set, owner_pid
    flushPos,   \* the WAL writer's flush pointer, as GetFlushRecPtr() reads it
    pc,         \* where each process is
    scan,       \* InitWalSnd's loop index i
    MyWalSnd,   \* each process's slot, 0 for NULL
    sentPtr,    \* each process's static sentPtr
    caughtup,   \* WalSndLoop's local caughtup
    got_SIGHUP,
    walsender_shutdown_requested,
    walsender_ready_to_stop,
    xls,        \* the running XLogSend call: its call site and its locals
    client,     \* the standby's end of the connection
    exitCode,   \* the exit status, -1 while running
    lastRemoved,\* the newest WAL segment removed or recycled, as XLogGetLastRemoved reads it
    sendFile,   \* each process's sendFile, sendId, sendSeg, sendOff and the file's offset
    stat,       \* the backend that runs pg_stat_get_wal_senders
    writer,     \* the WAL writer: "WalSndWakeup" between a flush and its wake-up
    hist        \* what the process has put on the wire and been signalled

vars ==
    << walsnds, latch, flushPos, pc, scan, MyWalSnd, sentPtr, caughtup,
       got_SIGHUP, walsender_shutdown_requested, walsender_ready_to_stop, xls,
       client, exitCode, lastRemoved, sendFile, stat, writer, hist >>

readVars == << lastRemoved, sendFile >>

sharedVars == << walsnds, latch, flushPos >>

\* the slots of the table: WalSndShmemInit makes max_wal_senders of them,
\* which is none under the default max_wal_senders = 0
Slots == DOMAIN walsnds

flagVars ==
    << got_SIGHUP, walsender_shutdown_requested, walsender_ready_to_stop >>

\* recptr, nbytes and buf are XLogRead's arguments as its loop moves them;
\* buf lists the bytes copied, each by its file and its offset in the file
NoCall == [site |-> "none", SendRqstPtr |-> ZeroPtr, startptr |-> ZeroPtr,
           endptr |-> ZeroPtr, recptr |-> ZeroPtr, nbytes |-> 0, buf |-> << >>]

NoFrame == [valid |-> FALSE, dataStart |-> ZeroPtr, walEnd |-> ZeroPtr,
            endptr |-> ZeroPtr, nbytes |-> 0, caughtup |-> FALSE,
            prevEnd |-> ZeroPtr,
            flushAtCall |-> ZeroPtr, flushed |-> FALSE]

NoEntry == [valid |-> FALSE, sentPtr |-> ZeroPtr, slotSentPtr |-> ZeroPtr,
            slotState |-> "STARTUP"]

\* lines 79-82: no file is open; path and pos are the segment and the offset
\* of the open file itself, nopen counts the process's open descriptors
NoFile == [fd |-> -1, sendId |-> 0, sendSeg |-> 0, sendOff |-> 0,
           path |-> [log |-> 0, seg |-> 0], pos |-> 0, nopen |-> 0]

\* no segment of the modelled stretch has been removed
NoneRemoved == [log |-> 0, seg |-> -1]

\* the read() calls of the running XLogRead, each with the length asked for
\* and the value returned, whether it has opened a file, and the error it
\* has raised
NoRead == [reads |-> << >>, opened |-> FALSE, err |-> "none"]

\* no call of pg_stat_get_wal_senders runs: i is its loop index, sentPtr and
\* state are its locals, rows is the tuplestore; seen holds what each slot has
\* contained since the call began
NoStat == [pc |-> "idle", i |-> 0, sentPtr |-> ZeroPtr, state |-> "STARTUP",
           rows |-> << >>, seen |-> {}]

InitHist ==
    [ started |-> FALSE,        \* START_REPLICATION was executed
      startPoint |-> ZeroPtr,   \* its start point
      frame |-> NoFrame,        \* the 'd' message of the running XLogSend call
      nextStart |-> ZeroPtr,    \* the end of the last 'd' message, or startPoint
      flushedEnd |-> ZeroPtr,   \* the end of the last 'd' message pq_flush accepted
      flushAtCall |-> ZeroPtr,  \* the flush pointer when XLogSend was entered
      entry |-> NoEntry,        \* sentPtr and the slot when XLogSend was entered
      last |-> "none",          \* the kind of the last message sent
      flushFailed |-> FALSE,    \* pq_flush has failed in XLogSend
      afterFail |-> FALSE,      \* a message was sent after that failure
      gotTerm |-> FALSE,        \* SIGTERM was delivered
      dAfterTerm |-> 0,         \* 'd' messages sent after SIGTERM
      cmd |-> "none",           \* the last command executed
      nW |-> 0,                 \* 'W' messages sent
      misplaced |-> FALSE,      \* a 'd' went before 'W', or a reply after it
      closed |-> "none",        \* what the sender has read of the standby's leaving
      afterClose |-> FALSE,     \* a message was sent after that
      rd |-> NoRead,            \* the reads of the running XLogSend call
      setState |-> "none" ]     \* what WalSndSetState did at the end of the
                                \* iteration just completed

Init ==
    /\ walsnds = [s \in 1 .. max_wal_senders |->
                      [pid |-> 0, state |-> "STARTUP", sentPtr |-> ZeroPtr]]
    /\ latch = [s \in 1 .. max_wal_senders |-> [is_set |-> FALSE, owner_pid |-> 0]]
    /\ flushPos = FirstPtr
    /\ pc = [p \in Procs |-> IF p = 1 THEN "WalSenderMain" ELSE "absent"]
    /\ scan = [p \in Procs |-> 0]
    /\ MyWalSnd = [p \in Procs |-> 0]
    /\ sentPtr = [p \in Procs |-> ZeroPtr]
    /\ caughtup = [p \in Procs |-> FALSE]
    /\ got_SIGHUP = [p \in Procs |-> FALSE]
    /\ walsender_shutdown_requested = [p \in Procs |-> FALSE]
    /\ walsender_ready_to_stop = [p \in Procs |-> FALSE]
    /\ xls = [p \in Procs |-> NoCall]
    /\ client = [p \in Procs |-> "up"]
    /\ exitCode = [p \in Procs |-> -1]
    /\ lastRemoved = NoneRemoved
    /\ sendFile = [p \in Procs |-> NoFile]
    /\ stat = NoStat
    /\ writer = "idle"
    /\ hist = [p \in Procs |-> InitHist]

(***************************************************************************)
(* Helpers of the actions.                                                 *)
(***************************************************************************)
\* a process that was forked and has not exited
Alive(p) == pc[p] \notin {"absent", "exited"}

\* signals are blocked until WalSenderMain's PG_SETMASK(&UnBlockSig)
SignalsOpen(p) ==
    pc[p] \notin {"absent", "WalSenderMain", "InitWalSnd", "OwnLatch", "exited"}

InLoop(p) ==
    pc[p] \in {"WalSndLoop", "ResetLatch", "XLogSend", "XLogRead", "pq_flush",
               "XLogSendUpdate", "sent", "WaitLatchOrSocket",
               "CheckClosedConnection"}

\* what the slots contain after a step is added to what the running call of
\* pg_stat_get_wal_senders could have read
Watched ==
    stat' = IF stat.pc \in {"idle", "done"}
            THEN stat
            ELSE [stat EXCEPT !.seen = @ \cup {<< s, walsnds'[s] >> : s \in Slots}]

\* a message goes out on the connection
Sent(h, kind) ==
    [h EXCEPT !.last = kind,
              !.afterFail = h.afterFail \/ h.flushFailed,
              !.afterClose = h.afterClose \/ h.closed # "none",
              !.nW = IF kind = "W" /\ @ < 2 THEN @ + 1 ELSE @,
              !.misplaced = \/ @
                            \/ kind = "d" /\ h.nW = 0
                            \/ kind \in {"TDCZ", "CZ", "Z"} /\ h.nW > 0]

\* proc_exit(code), and exit(code) through the atexit callback: the
\* on_shmem_exit callback WalSndKill runs if InitWalSnd has registered it
proc_exit(p, code) ==
    /\ exitCode' = [exitCode EXCEPT ![p] = code]
    /\ pc' = [pc EXCEPT ![p] = IF MyWalSnd[p] # 0 THEN "WalSndKill" ELSE "exit"]

\* a handler that sets its flag and leaves the latch alone
SetMyLatchNot(p) == latch

\* SetLatch(&MyWalSnd->latch) in a signal handler, if MyWalSnd is set
SetMyLatch(p) ==
    IF MyWalSnd[p] # 0
    THEN [latch EXCEPT ![MyWalSnd[p]].is_set = TRUE]
    ELSE latch

\* lines 1051-1056: WalSndSetState goes on to take the mutex and write
SetStateWrites(p, state) == walsnds[MyWalSnd[p]].state # state

\* what line 562 did to the slot: took the mutex and wrote, or returned early
SetStateDid(p, state) == IF SetStateWrites(p, state) THEN "wrote" ELSE "same"

\* WalSndSetState: the slot is written only when the state differs
WalSndSetStateSame(p, state) == walsnds

WalSndSetState(p, state) ==
    IF SetStateWrites(p, state)
    THEN [walsnds EXCEPT ![MyWalSnd[p]].state = state]
    ELSE walsnds

(***************************************************************************)
(* WalSenderMain up to the handshake.                                      *)
(***************************************************************************)
\* lines 121-127: FATAL while the server is in recovery, else InitWalSnd
WalSenderMain(p, inRecovery) ==
    /\ pc[p] = "WalSenderMain"
    /\ IF inRecovery
       THEN /\ proc_exit(p, 1)
            /\ hist' = [hist EXCEPT ![p] = Sent(@, "E")]
            /\ UNCHANGED scan
       ELSE /\ pc' = [pc EXCEPT ![p] = "InitWalSnd"]
            /\ scan' = [scan EXCEPT ![p] = 1]
            /\ UNCHANGED << exitCode, hist >>
    /\ UNCHANGED << sharedVars, flagVars, MyWalSnd, sentPtr, caughtup, xls, client >>
    /\ UNCHANGED readVars
    /\ UNCHANGED writer
    /\ Watched

\* line 602: the slot is free; a variant that takes any slot
SlotFreeAlways(walsnd) == TRUE

SlotFree(walsnd) == walsnd.pid = 0

\* line 595: the scan has passed the last slot; a variant that stops one
\* slot early
ScanDoneEarly(i) == i >= Cardinality(Slots)

ScanDone(i) == i > Cardinality(Slots)

\* lines 595-628: one turn of the scan; the slot is examined and claimed
\* under its spinlock
InitWalSnd(p) ==
    /\ pc[p] = "InitWalSnd"
    /\ IF ScanDone(scan[p])
       THEN /\ proc_exit(p, 1)
            /\ hist' = [hist EXCEPT ![p] = Sent(@, "E")]
            /\ UNCHANGED << walsnds, scan >>
       ELSE IF ~SlotFree(walsnds[scan[p]])
       THEN /\ scan' = [scan EXCEPT ![p] = @ + 1]
            /\ UNCHANGED << walsnds, pc, exitCode, hist >>
       ELSE /\ walsnds' = [walsnds EXCEPT ![scan[p]] =
                               [pid |-> p, state |-> "STARTUP", sentPtr |-> ZeroPtr]]
            /\ pc' = [pc EXCEPT ![p] = "OwnLatch"]
            /\ UNCHANGED << scan, exitCode, hist >>
    /\ UNCHANGED << latch, flushPos, flagVars, MyWalSnd, sentPtr,
                    caughtup, xls, client >>
    /\ UNCHANGED readVars
    /\ UNCHANGED writer
    /\ Watched

\* OwnLatch: the process attaches to the latch
OwnLatch(l, p) == [l EXCEPT !.owner_pid = p]

\* DisownLatch
DisownLatch(l) == [l EXCEPT !.owner_pid = 0]

\* lines 617-631 and 138-152: attach to the latch, set MyWalSnd, register
\* WalSndKill, unblock signals, ReadyForQuery
InitWalSndAttach(p) ==
    /\ pc[p] = "OwnLatch"
    /\ latch' = [latch EXCEPT ![scan[p]] = OwnLatch(@, p)]
    /\ MyWalSnd' = [MyWalSnd EXCEPT ![p] = scan[p]]
    /\ scan' = [scan EXCEPT ![p] = 0]
    /\ hist' = [hist EXCEPT ![p] = Sent(@, "Z")]
    /\ pc' = [pc EXCEPT ![p] = "WalSndHandshake"]
    /\ UNCHANGED << walsnds, flushPos, flagVars, sentPtr, caughtup, xls,
                    client, exitCode >>
    /\ UNCHANGED readVars
    /\ UNCHANGED writer
    /\ Watched

(***************************************************************************)
(* WalSndHandshake.                                                        *)
(***************************************************************************)
\* lines 182-190: advertise STARTUP, then wait for a command
WalSndHandshake(p) ==
    /\ pc[p] = "WalSndHandshake"
    /\ walsnds' = WalSndSetState(p, "STARTUP")
    /\ pc' = [pc EXCEPT ![p] = "pq_getbyte"]
    /\ UNCHANGED << latch, flushPos, flagVars, scan, MyWalSnd, sentPtr,
                    caughtup, xls, client, exitCode, hist >>
    /\ UNCHANGED readVars
    /\ UNCHANGED writer
    /\ Watched

\* the commands of a 'Q' message: the three of the grammar, one that does not
\* parse, and START_REPLICATION under wal_level = minimal
Commands ==
    { [cmd |-> c, startpoint |-> ZeroPtr] :
          c \in {"IDENTIFY_SYSTEM", "BASE_BACKUP", "syntax error"} }
        \cup { [cmd |-> c, startpoint |-> sp] :
                   c \in {"START_REPLICATION", "START_REPLICATION minimal"},
                   sp \in StartPoints }

\* lines 233-248 and 436-463: the exit status on a byte that is no command:
\* 0 on 'X' and on EOF, FATAL on any other; a variant that takes EOF for
\* an error
CloseStatusEofFatal(c) == IF c = "X" THEN 0 ELSE 1

CloseStatus(c) == IF c \in {"X", "eof"} THEN 0 ELSE 1

\* the message that goes with it: the FATAL error is reported to the standby
CloseMessage(h, c) ==
    [(IF CloseStatus(c) = 0 THEN h ELSE Sent(h, "E")) EXCEPT !.closed = c]

\* lines 393-401 and 225-226: only START_REPLICATION ends the handshake; a
\* variant in which every command does
AfterCommandStream(cmd) == "publish"

AfterCommand(cmd) ==
    IF cmd.cmd = "START_REPLICATION" THEN "publish" ELSE "WalSndHandshake"

\* lines 190-249 with HandleReplicationCommand, IdentifySystem and
\* StartReplication: one message of the standby is read and executed
HandleReplicationCommand(p, cmd, pmAlive) ==
    /\ pc[p] = "pq_getbyte"
    /\ IF ~pmAlive
       THEN /\ proc_exit(p, 1)
            /\ UNCHANGED << walsnds, got_SIGHUP, sentPtr, hist >>
       ELSE
       /\ got_SIGHUP' = [got_SIGHUP EXCEPT ![p] = FALSE]
       /\ CASE client[p] # "up" ->
                 /\ proc_exit(p, CloseStatus(client[p]))
                 /\ hist' = [hist EXCEPT ![p] = CloseMessage(@, client[p])]
                 /\ UNCHANGED << walsnds, sentPtr >>
            [] client[p] = "up" /\ cmd.cmd = "IDENTIFY_SYSTEM" ->
                 /\ hist' = [hist EXCEPT ![p] = [Sent(@, "TDCZ") EXCEPT !.cmd = cmd.cmd]]
                 /\ pc' = [pc EXCEPT ![p] = AfterCommand(cmd)]
                 /\ UNCHANGED << walsnds, sentPtr, exitCode >>
            [] client[p] = "up" /\ cmd.cmd = "BASE_BACKUP" ->
                 /\ walsnds' = WalSndSetState(p, "BACKUP")
                 /\ hist' = [hist EXCEPT ![p] = [Sent(@, "CZ") EXCEPT !.cmd = cmd.cmd]]
                 /\ pc' = [pc EXCEPT ![p] = AfterCommand(cmd)]
                 /\ UNCHANGED << sentPtr, exitCode >>
            [] client[p] = "up" /\ cmd.cmd = "START_REPLICATION" ->
                 /\ sentPtr' = [sentPtr EXCEPT ![p] = cmd.startpoint]
                 /\ hist' = [hist EXCEPT ![p] =
                                [Sent(@, "W") EXCEPT !.cmd = cmd.cmd,
                                                     !.started = TRUE,
                                                     !.startPoint = cmd.startpoint,
                                                     !.nextStart = cmd.startpoint]]
                 /\ pc' = [pc EXCEPT ![p] = AfterCommand(cmd)]
                 /\ UNCHANGED << walsnds, exitCode >>
            [] client[p] = "up" /\ cmd.cmd \in {"syntax error",
                                                "START_REPLICATION minimal"} ->
                 /\ proc_exit(p, 1)
                 /\ hist' = [hist EXCEPT ![p] = Sent(@, "E")]
                 /\ UNCHANGED << walsnds, sentPtr >>
    /\ UNCHANGED << latch, flushPos, walsender_shutdown_requested,
                    walsender_ready_to_stop, scan, MyWalSnd, caughtup, xls, client >>
    /\ UNCHANGED readVars
    /\ UNCHANGED writer
    /\ Watched

\* WalSenderMain, lines 157-168: publish the start point, enter WalSndLoop
PublishStartPoint(p) ==
    /\ pc[p] = "publish"
    /\ walsnds' = [walsnds EXCEPT ![MyWalSnd[p]].sentPtr = sentPtr[p]]
    /\ caughtup' = [caughtup EXCEPT ![p] = FALSE]
    /\ pc' = [pc EXCEPT ![p] = "WalSndLoop"]
    /\ UNCHANGED << latch, flushPos, flagVars, scan, MyWalSnd, sentPtr,
                    xls, client, exitCode, hist >>
    /\ UNCHANGED readVars
    /\ UNCHANGED writer
    /\ Watched

(***************************************************************************)
(* WalSndLoop.                                                             *)
(***************************************************************************)
Call(site) == [NoCall EXCEPT !.site = site]

\* line 503: the last cycle is on; a variant that also starts it on SIGTERM
LastCycleOrShutdown(p) ==
    walsender_ready_to_stop[p] \/ walsender_shutdown_requested[p]

LastCycle(p) == walsender_ready_to_stop[p]

\* line 507: the last cycle has sent everything; variants that stop at once
\* and that never stop
LastCycleDoneAlways(p) == TRUE

LastCycleDoneNever(p) == FALSE

LastCycleDone(p) == caughtup[p]

\* line 512: the normal exit is due
NormalExit(p) == walsender_shutdown_requested[p]

\* lines 483-559, the top of an iteration up to the next call: the postmaster
\* check, SIGHUP, and the choice between the last cycle (line 505), the
\* normal exit (line 512), the caught-up branch and the plain send (line 557)
WalSndLoop(p, pmAlive) ==
    /\ pc[p] = "WalSndLoop"
    /\ IF ~pmAlive
       THEN /\ proc_exit(p, 1)
            /\ UNCHANGED << got_SIGHUP, xls >>
       ELSE /\ got_SIGHUP' = [got_SIGHUP EXCEPT ![p] = FALSE]
            /\ UNCHANGED exitCode
            /\ IF LastCycle(p)
               THEN /\ pc' = [pc EXCEPT ![p] = "XLogSend"]
                    /\ xls' = [xls EXCEPT ![p] = Call("last cycle")]
               ELSE IF NormalExit(p)
               THEN /\ pc' = [pc EXCEPT ![p] = "CopyDone"]
                    /\ UNCHANGED xls
               ELSE IF caughtup[p]
               THEN /\ pc' = [pc EXCEPT ![p] = "ResetLatch"]
                    /\ UNCHANGED xls
               ELSE /\ pc' = [pc EXCEPT ![p] = "XLogSend"]
                    /\ xls' = [xls EXCEPT ![p] = Call("behind")]
    /\ hist' = [hist EXCEPT ![p].setState = "none"]
    /\ UNCHANGED << sharedVars, walsender_shutdown_requested,
                    walsender_ready_to_stop, scan, MyWalSnd, sentPtr, caughtup,
                    client >>
    /\ UNCHANGED readVars
    /\ UNCHANGED writer
    /\ Watched

\* lines 512-519: the normal exit: 'C' "COPY 0", pq_flush, proc_exit(0)
WalSndLoopExit(p) ==
    /\ pc[p] = "CopyDone"
    /\ hist' = [hist EXCEPT ![p] = Sent(@, "COPY 0")]
    /\ proc_exit(p, 0)
    /\ UNCHANGED << sharedVars, flagVars, scan, MyWalSnd, sentPtr, caughtup, xls,
                    client >>
    /\ UNCHANGED readVars
    /\ UNCHANGED writer
    /\ Watched

\* line 534: ResetLatch, before the send of the caught-up branch
ResetLatch(p) ==
    /\ pc[p] = "ResetLatch"
    /\ latch' = [latch EXCEPT ![MyWalSnd[p]].is_set = FALSE]
    /\ pc' = [pc EXCEPT ![p] = "XLogSend"]
    /\ xls' = [xls EXCEPT ![p] = Call("caught up")]
    /\ UNCHANGED << walsnds, flushPos, flagVars, scan, MyWalSnd, sentPtr,
                    caughtup, client, exitCode, hist >>
    /\ UNCHANGED readVars
    /\ UNCHANGED writer
    /\ Watched

(***************************************************************************)
(* XLogSend.                                                               *)
(***************************************************************************)
\* a quick exit taken only when the flush pointer is behind sentPtr
NothingToSendStrict(SendRqstPtr, sent) == XLByteLT(SendRqstPtr, sent)

\* line 799
NothingToSend(SendRqstPtr, sent) == XLByteLE(SendRqstPtr, sent)

\* lines 796-851: read the flush pointer; return at once if nothing is
\* unsent, else fix the slice and *caughtup
XLogSend(p) ==
    /\ pc[p] = "XLogSend"
    /\ LET SendRqstPtr == flushPos
           startptr == StartPtr(sentPtr[p])
           entry == [valid |-> TRUE, sentPtr |-> sentPtr[p],
                     slotSentPtr |-> walsnds[MyWalSnd[p]].sentPtr,
                     slotState |-> walsnds[MyWalSnd[p]].state]
       IN  /\ hist' = [hist EXCEPT ![p].flushAtCall = flushPos, ![p].entry = entry]
           /\ IF NothingToSend(SendRqstPtr, sentPtr[p])
              THEN /\ caughtup' = [caughtup EXCEPT ![p] = TRUE]
                   /\ xls' = [xls EXCEPT ![p].SendRqstPtr = SendRqstPtr]
                   /\ pc' = [pc EXCEPT ![p] = "sent"]
              ELSE /\ caughtup' = [caughtup EXCEPT ![p] =
                                       SendCaughtUp(startptr, SendRqstPtr)]
                   /\ xls' = [xls EXCEPT ![p].SendRqstPtr = SendRqstPtr,
                                         ![p].startptr = startptr,
                                         ![p].endptr = EndPtr(startptr, SendRqstPtr),
                                         ![p].recptr = startptr,
                                         ![p].nbytes =
                                             NBytes(startptr,
                                                    EndPtr(startptr, SendRqstPtr))]
                   /\ pc' = [pc EXCEPT ![p] = "XLogRead"]
    /\ UNCHANGED << sharedVars, flagVars, scan, MyWalSnd, sentPtr, client, exitCode >>
    /\ UNCHANGED readVars
    /\ UNCHANGED writer
    /\ Watched

(***************************************************************************)
(* XLogRead.                                                               *)
(***************************************************************************)
\* the segment file a position lies in
XLByteToSeg(ptr) == [log |-> ptr.xlogid, seg |-> ptr.xrecoff \div XLogSegSize]

XLByteInSeg(ptr, logId, logSeg) ==
    ptr.xlogid = logId /\ ptr.xrecoff \div XLogSegSize = logSeg

\* lines 753-754: the segment is at or below the lastRemoved watermark
Removed(s, wm) == s.log < wm.log \/ (s.log = wm.log /\ s.seg <= wm.seg)

\* what open(), lseek() and read() answer in one turn of the loop: read()
\* returns -1, 0, or a count of bytes up to the length asked for
ReadReturns == {-1, 0, 1, MAX_SEND_SIZE}

IOs == [open : {"ok", "ENOENT", "error"}, lseek : BOOLEAN, read : ReadReturns]

IOFull == [open |-> "ok", lseek |-> TRUE, read |-> MAX_SEND_SIZE]

IOReadError == [open |-> "ok", lseek |-> TRUE, read |-> -1]

\* a test of read()'s result that lets a zero read pass
ReadFailedNegative(readbytes) == readbytes < 0

\* line 729
ReadFailed(readbytes) == readbytes <= 0

\* an ERROR raised in XLogRead: the message goes to the standby and the
\* process ends (walsender has no error recovery)
XLogReadError(p, err) ==
    /\ proc_exit(p, 1)
    /\ hist' = [hist EXCEPT ![p] = [Sent(@, "E") EXCEPT !.rd.err = err]]

\* a test that keeps whatever file is open
NeedSwitchUnopened(file, recptr) == file.fd < 0

\* line 675
NeedSwitch(file, recptr) ==
    file.fd < 0 \/ ~XLByteInSeg(recptr, file.sendId, file.sendSeg)

\* a test that never finds a seek necessary
NeedSeekNever(file, startoff) == FALSE

\* line 712
NeedSeek(file, startoff) == file.sendOff # startoff

\* lines 667-742: one turn of XLogRead's loop
XLogRead(p, io) ==
    /\ pc[p] = "XLogRead"
    /\ xls[p].nbytes > 0
    /\ LET recptr == xls[p].recptr
           nbytes == xls[p].nbytes
           startoff == recptr.xrecoff % XLogSegSize
           switch == NeedSwitch(sendFile[p], recptr)
           seg == XLByteToSeg(recptr)
           closed == IF sendFile[p].fd >= 0
                     THEN sendFile[p].nopen - 1
                     ELSE sendFile[p].nopen
           opened == IF switch
                     THEN [fd |-> IF io.open = "ok" THEN 1 ELSE -1,
                           sendId |-> seg.log, sendSeg |-> seg.seg,
                           sendOff |-> 0, path |-> seg, pos |-> 0,
                           nopen |-> IF io.open = "ok" THEN closed + 1 ELSE closed]
                     ELSE sendFile[p]
           seek == NeedSeek(opened, startoff)
           sought == IF seek
                     THEN [opened EXCEPT !.sendOff = startoff, !.pos = startoff]
                     ELSE opened
           segbytes == IF nbytes > XLogSegSize - startoff
                       THEN XLogSegSize - startoff
                       ELSE nbytes
           readbytes == IF io.read > segbytes THEN segbytes ELSE io.read
           read == [segbytes |-> segbytes, readbytes |-> readbytes]
       IN  \* a file is missing only if it was removed
           /\ io.open = "ENOENT" => Removed(seg, lastRemoved)
           /\ CASE switch /\ io.open = "ENOENT" ->
                     /\ XLogReadError(p, "WAL_REMOVED")
                     /\ sendFile' = [sendFile EXCEPT ![p] = opened]
                     /\ UNCHANGED xls
                [] switch /\ io.open = "error" ->
                     /\ XLogReadError(p, "IO_ERROR")
                     /\ sendFile' = [sendFile EXCEPT ![p] = opened]
                     /\ UNCHANGED xls
                [] (~switch \/ io.open = "ok") /\ seek /\ ~io.lseek ->
                     /\ XLogReadError(p, "IO_ERROR")
                     /\ sendFile' = [sendFile EXCEPT ![p] = opened]
                     /\ UNCHANGED xls
                [] (~switch \/ io.open = "ok") /\ (seek => io.lseek)
                       /\ ReadFailed(readbytes) ->
                     /\ proc_exit(p, 1)
                     /\ hist' = [hist EXCEPT ![p] =
                                    [Sent(@, "E") EXCEPT
                                         !.rd.err = "IO_ERROR",
                                         !.rd.reads = Append(@, read)]]
                     /\ sendFile' = [sendFile EXCEPT ![p] = sought]
                     /\ UNCHANGED xls
                [] OTHER ->
                     /\ xls' = [xls EXCEPT
                                    ![p].recptr = XLByteAdvance(recptr, readbytes),
                                    ![p].nbytes = nbytes - readbytes,
                                    ![p].buf = @ \o
                                        [k \in 1 .. readbytes |->
                                            [log |-> sought.path.log,
                                             seg |-> sought.path.seg,
                                             off |-> sought.pos + k - 1]]]
                     /\ sendFile' = [sendFile EXCEPT ![p] =
                                        [sought EXCEPT
                                             !.sendOff = @ + readbytes,
                                             !.pos = @ + readbytes]]
                     /\ hist' = [hist EXCEPT ![p].rd.reads = Append(@, read),
                                             ![p].rd.opened = @ \/ switch]
                     /\ UNCHANGED << pc, exitCode >>
    /\ UNCHANGED << sharedVars, flagVars, scan, MyWalSnd, sentPtr, caughtup,
                    client, lastRemoved >>
    /\ UNCHANGED writer
    /\ Watched

\* lines 657-658: XLogRead is called again, for any stretch of one logical
\* file, after a call that has returned
CallXLogRead(p, recptr, nbytes) ==
    /\ pc[p] = "pq_flush"
    /\ recptr.xrecoff + nbytes <= XLogFileSize
    /\ xls' = [xls EXCEPT ![p].startptr = recptr,
                          ![p].endptr = Ptr(recptr.xlogid, recptr.xrecoff + nbytes),
                          ![p].recptr = recptr,
                          ![p].nbytes = nbytes,
                          ![p].buf = << >>]
    /\ hist' = [hist EXCEPT ![p].rd = NoRead]
    /\ pc' = [pc EXCEPT ![p] = "XLogRead"]
    /\ UNCHANGED << sharedVars, flagVars, scan, MyWalSnd, sentPtr, caughtup,
                    client, exitCode >>
    /\ UNCHANGED readVars
    /\ UNCHANGED writer
    /\ Watched

\* an XLogRead that does not look at the watermark after reading
PostReadCheckSkipped(startRecPtr, wm) == FALSE

\* a check that lets the segment at the watermark itself pass
PostReadCheckBelow(startRecPtr, wm) ==
    LET s == XLByteToSeg(startRecPtr)
    IN  s.log < wm.log \/ (s.log = wm.log /\ s.seg < wm.seg)

\* lines 751-754: the segment of the first byte asked for is held against the
\* lastRemoved watermark
PostReadCheck(startRecPtr, wm) == Removed(XLByteToSeg(startRecPtr), wm)

\* lines 751-763: the check after the loop
XLogReadCheck(p) ==
    /\ pc[p] = "XLogRead"
    /\ xls[p].nbytes = 0
    /\ IF PostReadCheck(xls[p].startptr, lastRemoved)
       THEN XLogReadError(p, "WAL_REMOVED")
       ELSE /\ pc' = [pc EXCEPT ![p] = "pq_flush"]
            /\ UNCHANGED << exitCode, hist >>
    /\ UNCHANGED << sharedVars, flagVars, scan, MyWalSnd, sentPtr, caughtup, xls,
                    client >>
    /\ UNCHANGED readVars
    /\ UNCHANGED writer
    /\ Watched

\* the end of a 'd' message's payload
FrameEnd(f) == Ptr(f.dataStart.xlogid, f.dataStart.xrecoff + f.nbytes)

MaxPtr(a, b) == IF XLByteLE(a, b) THEN b ELSE a

\* the header of the message: dataStart and walEnd
MsgHdrWalEndIsEnd(call) == [dataStart |-> call.startptr, walEnd |-> call.endptr]

MsgHdr(call) == [dataStart |-> call.startptr, walEnd |-> call.SendRqstPtr]

\* what a failed pq_flush leaves of sentPtr
SentPtrAfterFailedFlushAdvanced(p) == xls[p].endptr

SentPtrAfterFailedFlush(p) == sentPtr[p]

\* lines 868-878: the header, pq_putmessage('d') and pq_flush, which fails
\* only on a connection the standby has left
XLogSendFlush(p, ok) ==
    /\ pc[p] = "pq_flush"
    /\ ok \/ client[p] = "eof"
    /\ LET hdr == MsgHdr(xls[p])
           f == [valid |-> TRUE, dataStart |-> hdr.dataStart, walEnd |-> hdr.walEnd,
                 endptr |-> xls[p].endptr,
                 nbytes |-> NBytes(xls[p].startptr, xls[p].endptr),
                 caughtup |-> caughtup[p], prevEnd |-> hist[p].nextStart,
                 flushAtCall |-> hist[p].flushAtCall, flushed |-> ok]
           h == [Sent(hist[p], "d") EXCEPT
                     !.frame = f,
                     !.nextStart = FrameEnd(f),
                     !.dAfterTerm = IF hist[p].gotTerm /\ @ < 2 THEN @ + 1 ELSE @]
       IN  IF ok
           THEN /\ hist' = [hist EXCEPT ![p] =
                               [h EXCEPT !.flushedEnd = MaxPtr(@, FrameEnd(f))]]
                /\ pc' = [pc EXCEPT ![p] = "XLogSendUpdate"]
                /\ UNCHANGED sentPtr
           ELSE /\ hist' = [hist EXCEPT ![p] = [h EXCEPT !.flushFailed = TRUE]]
                /\ pc' = [pc EXCEPT ![p] = "break"]
                /\ sentPtr' = [sentPtr EXCEPT ![p] = SentPtrAfterFailedFlush(p)]
    /\ UNCHANGED << sharedVars, flagVars, scan, MyWalSnd, caughtup, xls, client,
                    exitCode >>
    /\ UNCHANGED readVars
    /\ UNCHANGED writer
    /\ Watched

\* the position XLogSend publishes after a flush; variants that publish the
\* flush pointer it read, and the start of the slice
PublishedPtrRqst(call) == call.SendRqstPtr

PublishedPtrStart(call) == call.startptr

PublishedPtr(call) == call.endptr

\* lines 880-902: sentPtr = endptr, published in the slot under its spinlock
XLogSendUpdate(p) ==
    /\ pc[p] = "XLogSendUpdate"
    /\ sentPtr' = [sentPtr EXCEPT ![p] = PublishedPtr(xls[p])]
    /\ walsnds' = [walsnds EXCEPT ![MyWalSnd[p]].sentPtr = PublishedPtr(xls[p])]
    /\ pc' = [pc EXCEPT ![p] = "sent"]
    /\ UNCHANGED << latch, flushPos, flagVars, scan, MyWalSnd, caughtup,
                    xls, client, exitCode, hist >>
    /\ UNCHANGED readVars
    /\ UNCHANGED writer
    /\ Watched

(***************************************************************************)
(* WalSndLoop after XLogSend has returned.                                 *)
(***************************************************************************)
Returned(h) ==
    [h EXCEPT !.frame = NoFrame, !.entry = NoEntry, !.flushAtCall = ZeroPtr,
              !.rd = NoRead]

\* the state WalSndLoop publishes at the end of an iteration (line 562)
LoopState(p) == IF caughtup[p] THEN "STREAMING" ELSE "CATCHUP"

\* XLogSend has returned true: lines 507-525 after the last-cycle send,
\* lines 538-549 after the caught-up send, line 562 after the plain send
WalSndLoopSent(p) ==
    /\ pc[p] = "sent"
    /\ hist' = [hist EXCEPT ![p] =
                   IF xls[p].site = "behind"
                   THEN [Returned(@) EXCEPT
                             !.setState = SetStateDid(p, LoopState(p))]
                   ELSE Returned(@)]
    /\ CASE xls[p].site = "last cycle" ->
              /\ walsender_shutdown_requested' =
                     [walsender_shutdown_requested EXCEPT ![p] = @ \/ LastCycleDone(p)]
              /\ IF LastCycleDone(p) \/ NormalExit(p)
                 THEN /\ pc' = [pc EXCEPT ![p] = "CopyDone"]
                      /\ UNCHANGED xls
                 ELSE /\ pc' = [pc EXCEPT ![p] = "XLogSend"]
                      /\ xls' = [xls EXCEPT ![p] = Call("behind")]
              /\ UNCHANGED walsnds
         [] xls[p].site = "caught up" ->
              /\ IF /\ caughtup[p]
                    /\ ~got_SIGHUP[p]
                    /\ ~walsender_ready_to_stop[p]
                    /\ ~walsender_shutdown_requested[p]
                 THEN pc' = [pc EXCEPT ![p] = "WaitLatchOrSocket"]
                 ELSE pc' = [pc EXCEPT ![p] = "CheckClosedConnection"]
              /\ xls' = [xls EXCEPT ![p] = NoCall]
              /\ UNCHANGED << walsnds, walsender_shutdown_requested >>
         [] xls[p].site = "behind" ->
              /\ walsnds' = WalSndSetState(p, LoopState(p))
              /\ pc' = [pc EXCEPT ![p] = "WalSndLoop"]
              /\ xls' = [xls EXCEPT ![p] = NoCall]
              /\ UNCHANGED walsender_shutdown_requested
    /\ UNCHANGED << latch, flushPos, got_SIGHUP, walsender_ready_to_stop,
                    scan, MyWalSnd, sentPtr, caughtup, client, exitCode >>
    /\ UNCHANGED readVars
    /\ UNCHANGED writer
    /\ Watched

\* lines 547-548: the sleep ends when the latch is set, when the socket is
\* readable or closed, or at the timeout
WaitLatchOrSocket(p, timeout) ==
    /\ pc[p] = "WaitLatchOrSocket"
    /\ timeout \/ latch[MyWalSnd[p]].is_set \/ client[p] # "up"
    /\ pc' = [pc EXCEPT ![p] = "CheckClosedConnection"]
    /\ UNCHANGED << sharedVars, flagVars, scan, MyWalSnd, sentPtr, caughtup, xls,
                    client, exitCode, hist >>
    /\ UNCHANGED readVars
    /\ UNCHANGED writer
    /\ Watched

\* lines 430-466 and 562: leave on EOF or 'X', FATAL on any other byte; with
\* nothing to read, publish the state and start the next iteration
CheckClosedConnection(p) ==
    /\ pc[p] = "CheckClosedConnection"
    /\ CASE client[p] # "up" ->
              /\ proc_exit(p, CloseStatus(client[p]))
              /\ hist' = [hist EXCEPT ![p] = CloseMessage(@, client[p])]
              /\ UNCHANGED walsnds
         [] client[p] = "up" ->
              /\ walsnds' = WalSndSetState(p, LoopState(p))
              /\ pc' = [pc EXCEPT ![p] = "WalSndLoop"]
              /\ hist' = [hist EXCEPT ![p].setState = SetStateDid(p, LoopState(p))]
              /\ UNCHANGED exitCode
    /\ UNCHANGED << latch, flushPos, flagVars, scan, MyWalSnd, sentPtr,
                    caughtup, xls, client >>
    /\ UNCHANGED readVars
    /\ UNCHANGED writer
    /\ Watched

\* what WalSndLoop sends after the loop was left on a send failure: nothing
\* (whereToSendOutput = DestNone); a variant that still reports an error
BreakMessageError(h) == Sent(h, "E")

BreakMessage(h) == h

\* lines 565-574: XLogSend returned false
WalSndLoopBreak(p) ==
    /\ pc[p] = "break"
    /\ hist' = [hist EXCEPT ![p] = BreakMessage(@)]
    /\ proc_exit(p, 0)
    /\ UNCHANGED << sharedVars, flagVars, scan, MyWalSnd, sentPtr, caughtup, xls,
                    client >>
    /\ UNCHANGED readVars
    /\ UNCHANGED writer
    /\ Watched

(***************************************************************************)
(* The exit callback.                                                      *)
(***************************************************************************)
\* line 644: MyWalSnd->pid = 0, without the spinlock
WalSndKill(p) ==
    /\ pc[p] = "WalSndKill"
    /\ walsnds' = [walsnds EXCEPT ![MyWalSnd[p]].pid = 0]
    /\ pc' = [pc EXCEPT ![p] = "DisownLatch"]
    /\ UNCHANGED << latch, flushPos, flagVars, scan, MyWalSnd, sentPtr,
                    caughtup, xls, client, exitCode, hist >>
    /\ UNCHANGED readVars
    /\ UNCHANGED writer
    /\ Watched

\* lines 645-648: DisownLatch, MyWalSnd = NULL
WalSndKillDisown(p) ==
    /\ pc[p] = "DisownLatch"
    /\ latch' = [latch EXCEPT ![MyWalSnd[p]] = DisownLatch(@)]
    /\ MyWalSnd' = [MyWalSnd EXCEPT ![p] = 0]
    /\ pc' = [pc EXCEPT ![p] = "exit"]
    /\ UNCHANGED << walsnds, flushPos, flagVars, scan, sentPtr, caughtup,
                    xls, client, exitCode, hist >>
    /\ UNCHANGED readVars
    /\ UNCHANGED writer
    /\ Watched

\* the process ends with the status code: its memory and its connection are
\* gone, what it wrote in shared memory stays
Gone(p, code) ==
    /\ pc' = [pc EXCEPT ![p] = "exited"]
    /\ exitCode' = [exitCode EXCEPT ![p] = code]
    /\ scan' = [scan EXCEPT ![p] = 0]
    /\ MyWalSnd' = [MyWalSnd EXCEPT ![p] = 0]
    /\ sentPtr' = [sentPtr EXCEPT ![p] = ZeroPtr]
    /\ caughtup' = [caughtup EXCEPT ![p] = FALSE]
    /\ got_SIGHUP' = [got_SIGHUP EXCEPT ![p] = FALSE]
    /\ walsender_shutdown_requested' =
           [walsender_shutdown_requested EXCEPT ![p] = FALSE]
    /\ walsender_ready_to_stop' = [walsender_ready_to_stop EXCEPT ![p] = FALSE]
    /\ xls' = [xls EXCEPT ![p] = NoCall]
    /\ client' = [client EXCEPT ![p] = "eof"]
    /\ sendFile' = [sendFile EXCEPT ![p] = NoFile]
    /\ hist' = [hist EXCEPT ![p] = InitHist]

\* the end of proc_exit, after the callbacks
ProcExit(p) ==
    /\ pc[p] = "exit"
    /\ Gone(p, exitCode[p])
    /\ UNCHANGED sharedVars
    /\ UNCHANGED lastRemoved
    /\ UNCHANGED writer
    /\ Watched

(***************************************************************************)
(* Signal handlers.                                                        *)
(***************************************************************************)
\* SIGHUP
WalSndSigHupHandler(p) ==
    /\ SignalsOpen(p)
    /\ got_SIGHUP' = [got_SIGHUP EXCEPT ![p] = TRUE]
    /\ latch' = SetMyLatch(p)
    /\ UNCHANGED << walsnds, flushPos, walsender_shutdown_requested,
                    walsender_ready_to_stop, pc, scan, MyWalSnd, sentPtr, caughtup,
                    xls, client, exitCode, hist >>
    /\ UNCHANGED readVars
    /\ UNCHANGED writer
    /\ Watched

\* SIGTERM
WalSndShutdownHandler(p) ==
    /\ SignalsOpen(p)
    /\ walsender_shutdown_requested' =
           [walsender_shutdown_requested EXCEPT ![p] = TRUE]
    /\ latch' = SetMyLatch(p)
    /\ hist' = [hist EXCEPT ![p].gotTerm = TRUE]
    /\ UNCHANGED << walsnds, flushPos, got_SIGHUP, walsender_ready_to_stop,
                    pc, scan, MyWalSnd, sentPtr, caughtup, xls, client, exitCode >>
    /\ UNCHANGED readVars
    /\ UNCHANGED writer
    /\ Watched

\* SIGUSR2
WalSndLastCycleHandler(p) ==
    /\ SignalsOpen(p)
    /\ walsender_ready_to_stop' = [walsender_ready_to_stop EXCEPT ![p] = TRUE]
    /\ latch' = SetMyLatch(p)
    /\ UNCHANGED << walsnds, flushPos, got_SIGHUP,
                    walsender_shutdown_requested, pc, scan, MyWalSnd, sentPtr,
                    caughtup, xls, client, exitCode, hist >>
    /\ UNCHANGED readVars
    /\ UNCHANGED writer
    /\ Watched

\* SIGQUIT: on_exit_reset and exit(2); no callback runs
WalSndQuickDieHandler(p) ==
    /\ SignalsOpen(p)
    /\ Gone(p, 2)
    /\ UNCHANGED sharedVars
    /\ UNCHANGED lastRemoved
    /\ UNCHANGED writer
    /\ Watched

(***************************************************************************)
(* The other processes.                                                    *)
(***************************************************************************)
\* the WAL writer flushes up to ptr
XLogFlush(ptr) ==
    /\ \E q \in Procs : Alive(q)
    /\ XLByteLT(flushPos, ptr)
    /\ flushPos' = ptr
    /\ UNCHANGED << walsnds, latch, pc, scan, MyWalSnd, sentPtr, caughtup,
                    flagVars, xls, client, exitCode, hist >>
    /\ UNCHANGED readVars
    /\ UNCHANGED writer
    /\ Watched

\* a checkpoint removes or recycles the segments up to s, all of them wholly
\* before the flush pointer
RemoveOldXlogFiles(s) ==
    /\ \E q \in Procs : Alive(q)
    /\ ~Removed(s, lastRemoved)
    /\ Removed(s, XLByteToSeg(flushPos))
    /\ s # XLByteToSeg(flushPos)
    /\ lastRemoved' = s
    /\ UNCHANGED << sharedVars, pc, scan, MyWalSnd, sentPtr, caughtup,
                    flagVars, xls, client, exitCode, sendFile, hist >>
    /\ UNCHANGED writer
    /\ Watched

(***************************************************************************)
(* pg_stat_get_wal_senders, run by an ordinary backend.                    *)
(***************************************************************************)
StatVars ==
    << sharedVars, flagVars, pc, scan, MyWalSnd, sentPtr, caughtup, xls, client,
       exitCode, readVars, writer, hist >>

\* lines 1085-1121: the call begins with an empty tuplestore and i = 0
pg_stat_get_wal_senders ==
    /\ stat.pc = "idle"
    /\ stat' = [NoStat EXCEPT !.pc = "test", !.i = 1,
                              !.seen = {<< s, walsnds[s] >> : s \in Slots}]
    /\ UNCHANGED StatVars

\* lines 1121, 1131-1132: the loop test, and the test of pid without the lock
StatTest ==
    /\ stat.pc = "test"
    /\ stat' = IF stat.i > Cardinality(Slots)
               THEN [stat EXCEPT !.pc = "done"]
               ELSE IF walsnds[stat.i].pid = 0
                    THEN [stat EXCEPT !.i = @ + 1]
                    ELSE [stat EXCEPT !.pc = "read"]
    /\ UNCHANGED StatVars

\* lines 1134-1137: sentPtr and state are copied under the spinlock
StatRead ==
    /\ stat.pc = "read"
    /\ stat' = [stat EXCEPT !.pc = "emit",
                            !.sentPtr = walsnds[stat.i].sentPtr,
                            !.state = walsnds[stat.i].state]
    /\ UNCHANGED StatVars

\* lines 1139-1147: the row is built and stored
StatEmit ==
    /\ stat.pc = "emit"
    /\ stat' = [stat EXCEPT
                   !.pc = "test",
                   !.i = @ + 1,
                   !.rows = Append(@, [slot |-> stat.i,
                                       pid |-> walsnds[stat.i].pid,
                                       state |-> stat.state,
                                       sentPtr |-> stat.sentPtr])]
    /\ UNCHANGED StatVars

\* lines 1033-1040: every slot's latch is set
WalSndWakeup ==
    /\ \E q \in Procs : Alive(q)
    /\ latch' = [s \in Slots |-> [latch[s] EXCEPT !.is_set = TRUE]]
    /\ UNCHANGED << walsnds, flushPos, pc, scan, MyWalSnd, sentPtr,
                    caughtup, flagVars, xls, client, exitCode, hist >>
    /\ UNCHANGED readVars
    /\ UNCHANGED writer
    /\ Watched

\* the WAL writer as a process of two steps: it moves the flush pointer up
\* to ptr, and owes the senders one call of WalSndWakeup
XLogFlushThenWake(ptr) ==
    /\ writer = "idle"
    /\ \E q \in Procs : Alive(q)
    /\ XLByteLT(flushPos, ptr)
    /\ flushPos' = ptr
    /\ writer' = "WalSndWakeup"
    /\ UNCHANGED << walsnds, latch, pc, scan, MyWalSnd, sentPtr, caughtup,
                    flagVars, xls, client, exitCode, hist >>
    /\ UNCHANGED readVars
    /\ Watched

\* a wake-up that sets no latch
WalSndWakeupLost ==
    /\ writer = "WalSndWakeup"
    /\ writer' = "idle"
    /\ UNCHANGED << walsnds, latch, flushPos, pc, scan, MyWalSnd, sentPtr,
                    caughtup, flagVars, xls, client, exitCode, hist >>
    /\ UNCHANGED readVars
    /\ Watched

\* lines 1033-1040, called by the writer after its flush
WalSndWakeupAfterFlush ==
    /\ writer = "WalSndWakeup"
    /\ latch' = [s \in Slots |-> [latch[s] EXCEPT !.is_set = TRUE]]
    /\ writer' = "idle"
    /\ UNCHANGED << walsnds, flushPos, pc, scan, MyWalSnd, sentPtr,
                    caughtup, flagVars, xls, client, exitCode, hist >>
    /\ UNCHANGED readVars
    /\ Watched

\* the standby sends 'X', sends another byte, or drops the connection
ClientSends(p, c) ==
    /\ Alive(p)
    /\ client[p] = "up"
    /\ client' = [client EXCEPT ![p] = c]
    /\ UNCHANGED << sharedVars, flagVars, pc, scan, MyWalSnd, sentPtr, caughtup,
                    xls, exitCode, hist >>
    /\ UNCHANGED readVars
    /\ UNCHANGED writer
    /\ Watched

(***************************************************************************)
(* Specifications.                                                         *)
(***************************************************************************)
SenderStep(p, cmds) ==
    \/ \E inRecovery \in BOOLEAN : WalSenderMain(p, inRecovery)
    \/ InitWalSnd(p)
    \/ InitWalSndAttach(p)
    \/ WalSndHandshake(p)
    \/ \E cmd \in cmds, pmAlive \in BOOLEAN :
           HandleReplicationCommand(p, cmd, pmAlive)
    \/ PublishStartPoint(p)
    \/ \E pmAlive \in BOOLEAN : WalSndLoop(p, pmAlive)
    \/ WalSndLoopExit(p)
    \/ ResetLatch(p)
    \/ XLogSend(p)
    \/ \E io \in {IOFull, IOReadError} : XLogRead(p, io)
    \/ XLogReadCheck(p)
    \/ \E ok \in BOOLEAN : XLogSendFlush(p, ok)
    \/ XLogSendUpdate(p)
    \/ WalSndLoopSent(p)
    \/ \E timeout \in BOOLEAN : WaitLatchOrSocket(p, timeout)
    \/ CheckClosedConnection(p)
    \/ WalSndLoopBreak(p)
    \/ WalSndKill(p)
    \/ WalSndKillDisown(p)
    \/ ProcExit(p)

\* one sender, every signal, any command, the writer anywhere in the stretch
Next ==
    \/ \E p \in Procs : SenderStep(p, Commands)
    \/ \E p \in Procs : WalSndSigHupHandler(p)
    \/ \E p \in Procs : WalSndShutdownHandler(p)
    \/ \E p \in Procs : WalSndLastCycleHandler(p)
    \/ \E p \in Procs : WalSndQuickDieHandler(p)
    \/ \E p \in Procs : \E c \in {"X", "junk", "eof"} : ClientSends(p, c)
    \/ \E ptr \in WalPtrs : XLogFlush(ptr)
    \/ WalSndWakeup

Spec == Init /\ [][Next]_vars

\* two senders compete for the slots of a table of max_wal_senders slots, or
\* of none; each streams one stretch of two bytes
InitSlots ==
    /\ \E n \in {0, max_wal_senders} :
           /\ walsnds = [s \in 1 .. n |->
                             [pid |-> 0, state |-> "STARTUP", sentPtr |-> ZeroPtr]]
           /\ latch = [s \in 1 .. n |-> [is_set |-> FALSE, owner_pid |-> 0]]
    /\ flushPos = XLByteAdvance(FirstPtr, 1)
    /\ pc = [p \in Procs |-> "WalSenderMain"]
    /\ scan = [p \in Procs |-> 0]
    /\ MyWalSnd = [p \in Procs |-> 0]
    /\ sentPtr = [p \in Procs |-> ZeroPtr]
    /\ caughtup = [p \in Procs |-> FALSE]
    /\ got_SIGHUP = [p \in Procs |-> FALSE]
    /\ walsender_shutdown_requested = [p \in Procs |-> FALSE]
    /\ walsender_ready_to_stop = [p \in Procs |-> FALSE]
    /\ xls = [p \in Procs |-> NoCall]
    /\ client = [p \in Procs |-> "up"]
    /\ exitCode = [p \in Procs |-> -1]
    /\ lastRemoved = NoneRemoved
    /\ sendFile = [p \in Procs |-> NoFile]
    /\ stat = NoStat
    /\ writer = "idle"
    /\ hist = [p \in Procs |-> InitHist]

SlotCommands ==
    { [cmd |-> "START_REPLICATION", startpoint |-> FirstPtr],
      [cmd |-> "syntax error", startpoint |-> ZeroPtr] }

\* SIGTERM and SIGQUIT come at any time, and the standby may drop the
\* connection
NextSlots ==
    \/ \E p \in Procs : SenderStep(p, SlotCommands)
    \/ \E p \in Procs : WalSndShutdownHandler(p)
    \/ \E p \in Procs : WalSndQuickDieHandler(p)
    \/ \E p \in Procs : \E c \in {"eof"} : ClientSends(p, c)

SpecSlots == InitSlots /\ [][NextSlots]_vars

\* one sender in a sound environment: the server is not in recovery, the
\* postmaster lives, the WAL files are there, the standby stays connected
\* and sends only commands, and no SIGQUIT comes
LiveCommands == {c \in Commands : c.cmd \in {"IDENTIFY_SYSTEM", "START_REPLICATION"}}

SenderStepLive(p) ==
    \/ WalSenderMain(p, FALSE)
    \/ InitWalSnd(p)
    \/ InitWalSndAttach(p)
    \/ WalSndHandshake(p)
    \/ \E cmd \in LiveCommands : HandleReplicationCommand(p, cmd, TRUE)
    \/ PublishStartPoint(p)
    \/ WalSndLoop(p, TRUE)
    \/ WalSndLoopExit(p)
    \/ ResetLatch(p)
    \/ XLogSend(p)
    \/ XLogRead(p, IOFull)
    \/ XLogReadCheck(p)
    \/ XLogSendFlush(p, TRUE)
    \/ XLogSendUpdate(p)
    \/ WalSndLoopSent(p)
    \/ \E timeout \in BOOLEAN : WaitLatchOrSocket(p, timeout)
    \/ CheckClosedConnection(p)
    \/ WalSndKill(p)
    \/ WalSndKillDisown(p)
    \/ ProcExit(p)

NextLive ==
    \/ \E p \in Procs : SenderStepLive(p)
    \/ \E p \in Procs : WalSndSigHupHandler(p)
    \/ \E p \in Procs : WalSndShutdownHandler(p)
    \/ \E p \in Procs : WalSndLastCycleHandler(p)
    \/ \E ptr \in WalPtrs : XLogFlush(ptr)
    \/ WalSndWakeup

\* a sender that can take a step is scheduled in the end
SpecLive ==
    Init /\ [][NextLive]_vars /\ \A p \in Procs : WF_vars(SenderStepLive(p))

\* one sender in the same sound environment, with no signal and with a wait
\* that has no timeout; the writer wakes the senders once after each flush
SenderStepWake(p) ==
    \/ WalSenderMain(p, FALSE)
    \/ InitWalSnd(p)
    \/ InitWalSndAttach(p)
    \/ WalSndHandshake(p)
    \/ \E cmd \in LiveCommands : HandleReplicationCommand(p, cmd, TRUE)
    \/ PublishStartPoint(p)
    \/ WalSndLoop(p, TRUE)
    \/ ResetLatch(p)
    \/ XLogSend(p)
    \/ XLogRead(p, IOFull)
    \/ XLogReadCheck(p)
    \/ XLogSendFlush(p, TRUE)
    \/ XLogSendUpdate(p)
    \/ WalSndLoopSent(p)
    \/ WaitLatchOrSocket(p, FALSE)
    \/ CheckClosedConnection(p)

NextWake ==
    \/ \E p \in Procs : SenderStepWake(p)
    \/ \E ptr \in WalPtrs : XLogFlushThenWake(ptr)
    \/ WalSndWakeupAfterFlush

\* the sender is scheduled when it can take a step, and the writer gets to
\* the wake-up it owes
SpecWake ==
    /\ Init
    /\ [][NextWake]_vars
    /\ \A p \in Procs : WF_vars(SenderStepWake(p))
    /\ WF_vars(WalSndWakeupAfterFlush)

\* one sender streams from any start point while the WAL writer flushes, a
\* checkpoint removes old segments, and open(), lseek() and read() answer
\* in any way; no signal comes and the standby stays connected
ReadCommands == {c \in Commands : c.cmd = "START_REPLICATION"}

Segs == {XLByteToSeg(ptr) : ptr \in WalPtrs}

SenderStepRead(p) ==
    \/ WalSenderMain(p, FALSE)
    \/ InitWalSnd(p)
    \/ InitWalSndAttach(p)
    \/ WalSndHandshake(p)
    \/ \E cmd \in ReadCommands : HandleReplicationCommand(p, cmd, TRUE)
    \/ PublishStartPoint(p)
    \/ WalSndLoop(p, TRUE)
    \/ ResetLatch(p)
    \/ XLogSend(p)
    \/ \E io \in IOs : XLogRead(p, io)
    \/ XLogReadCheck(p)
    \/ XLogSendFlush(p, TRUE)
    \/ XLogSendUpdate(p)
    \/ WalSndLoopSent(p)
    \/ \E timeout \in BOOLEAN : WaitLatchOrSocket(p, timeout)
    \/ CheckClosedConnection(p)
    \/ WalSndKill(p)
    \/ WalSndKillDisown(p)
    \/ ProcExit(p)

NextRead ==
    \/ \E p \in Procs : SenderStepRead(p)
    \/ \E ptr \in WalPtrs : XLogFlush(ptr)
    \/ \E s \in Segs : RemoveOldXlogFiles(s)

SpecRead == Init /\ [][NextRead]_vars
\* two senders come and go over one table of slots while a backend runs
\* pg_stat_get_wal_senders once; the senders have caught up with the writer
InitStat ==
    /\ walsnds = [s \in 1 .. max_wal_senders |->
                      [pid |-> 0, state |-> "STARTUP", sentPtr |-> ZeroPtr]]
    /\ latch = [s \in 1 .. max_wal_senders |-> [is_set |-> FALSE, owner_pid |-> 0]]
    /\ flushPos = FirstPtr
    /\ pc = [p \in Procs |-> "WalSenderMain"]
    /\ scan = [p \in Procs |-> 0]
    /\ MyWalSnd = [p \in Procs |-> 0]
    /\ sentPtr = [p \in Procs |-> ZeroPtr]
    /\ caughtup = [p \in Procs |-> FALSE]
    /\ got_SIGHUP = [p \in Procs |-> FALSE]
    /\ walsender_shutdown_requested = [p \in Procs |-> FALSE]
    /\ walsender_ready_to_stop = [p \in Procs |-> FALSE]
    /\ xls = [p \in Procs |-> NoCall]
    /\ client = [p \in Procs |-> "up"]
    /\ exitCode = [p \in Procs |-> -1]
    /\ lastRemoved = NoneRemoved
    /\ sendFile = [p \in Procs |-> NoFile]
    /\ stat = NoStat
    /\ writer = "idle"
    /\ hist = [p \in Procs |-> InitHist]

StatCommands == {[cmd |-> "START_REPLICATION", startpoint |-> FirstPtr]}

SenderStepStat(p) ==
    \/ WalSenderMain(p, FALSE)
    \/ InitWalSnd(p)
    \/ InitWalSndAttach(p)
    \/ WalSndHandshake(p)
    \/ \E cmd \in StatCommands : HandleReplicationCommand(p, cmd, TRUE)
    \/ PublishStartPoint(p)
    \/ WalSndLoop(p, TRUE)
    \/ ResetLatch(p)
    \/ XLogSend(p)
    \/ WalSndLoopSent(p)
    \/ WaitLatchOrSocket(p, FALSE)
    \/ CheckClosedConnection(p)
    \/ WalSndKill(p)
    \/ WalSndKillDisown(p)
    \/ ProcExit(p)

NextStat ==
    \/ \E p \in Procs : SenderStepStat(p)
    \/ \E p \in Procs : ClientSends(p, "eof")
    \/ pg_stat_get_wal_senders
    \/ StatTest
    \/ StatRead
    \/ StatEmit

SpecStat == InitStat /\ [][NextStat]_vars
\* one sender streams from any position a standby can name up to any position
\* the WAL writer can have flushed, in a sound environment
FlushPtrs == {Ptr(l, o) : l \in 0 .. 1, o \in 0 .. XLogFileSize}

FrameCommands ==
    { [cmd |-> "START_REPLICATION", startpoint |-> Ptr(l, o)] :
          l \in 0 .. 1, o \in 0 .. (UINT32_MOD - 1) }

InitFrame ==
    /\ walsnds = [s \in 1 .. max_wal_senders |->
                      [pid |-> 0, state |-> "STARTUP", sentPtr |-> ZeroPtr]]
    /\ latch = [s \in 1 .. max_wal_senders |-> [is_set |-> FALSE, owner_pid |-> 0]]
    /\ flushPos \in FlushPtrs
    /\ pc = [p \in Procs |-> IF p = 1 THEN "WalSenderMain" ELSE "absent"]
    /\ scan = [p \in Procs |-> 0]
    /\ MyWalSnd = [p \in Procs |-> 0]
    /\ sentPtr = [p \in Procs |-> ZeroPtr]
    /\ caughtup = [p \in Procs |-> FALSE]
    /\ got_SIGHUP = [p \in Procs |-> FALSE]
    /\ walsender_shutdown_requested = [p \in Procs |-> FALSE]
    /\ walsender_ready_to_stop = [p \in Procs |-> FALSE]
    /\ xls = [p \in Procs |-> NoCall]
    /\ client = [p \in Procs |-> "up"]
    /\ exitCode = [p \in Procs |-> -1]
    /\ lastRemoved = NoneRemoved
    /\ sendFile = [p \in Procs |-> NoFile]
    /\ stat = NoStat
    /\ writer = "idle"
    /\ hist = [p \in Procs |-> InitHist]

SenderStepFrame(p) ==
    \/ WalSenderMain(p, FALSE)
    \/ InitWalSnd(p)
    \/ InitWalSndAttach(p)
    \/ WalSndHandshake(p)
    \/ \E cmd \in FrameCommands : HandleReplicationCommand(p, cmd, TRUE)
    \/ PublishStartPoint(p)
    \/ WalSndLoop(p, TRUE)
    \/ ResetLatch(p)
    \/ XLogSend(p)
    \/ XLogRead(p, IOFull)
    \/ XLogReadCheck(p)
    \/ XLogSendFlush(p, TRUE)
    \/ XLogSendUpdate(p)
    \/ WalSndLoopSent(p)
    \/ WaitLatchOrSocket(p, TRUE)

NextFrame == \E p \in Procs : SenderStepFrame(p)

SpecFrame == InitFrame /\ [][NextFrame]_vars
\* one sender reaches XLogRead, which is then called over and over for any
\* stretch, forwards, backwards or again, while open(), lseek() and read()
\* answer in any way
InitCalls ==
    /\ walsnds = [s \in 1 .. max_wal_senders |->
                      [pid |-> 0, state |-> "STARTUP", sentPtr |-> ZeroPtr]]
    /\ latch = [s \in 1 .. max_wal_senders |-> [is_set |-> FALSE, owner_pid |-> 0]]
    /\ flushPos = LastPtr
    /\ pc = [p \in Procs |-> IF p = 1 THEN "WalSenderMain" ELSE "absent"]
    /\ scan = [p \in Procs |-> 0]
    /\ MyWalSnd = [p \in Procs |-> 0]
    /\ sentPtr = [p \in Procs |-> ZeroPtr]
    /\ caughtup = [p \in Procs |-> FALSE]
    /\ got_SIGHUP = [p \in Procs |-> FALSE]
    /\ walsender_shutdown_requested = [p \in Procs |-> FALSE]
    /\ walsender_ready_to_stop = [p \in Procs |-> FALSE]
    /\ xls = [p \in Procs |-> NoCall]
    /\ client = [p \in Procs |-> "up"]
    /\ exitCode = [p \in Procs |-> -1]
    /\ lastRemoved = NoneRemoved
    /\ sendFile = [p \in Procs |-> NoFile]
    /\ stat = NoStat
    /\ writer = "idle"
    /\ hist = [p \in Procs |-> InitHist]

ReadArgs ==
    {a \in [recptr : {Ptr(l, o) : l \in 0 .. 1, o \in 0 .. (XLogFileSize - 1)},
            nbytes : 0 .. MAX_SEND_SIZE] :
         a.recptr.xrecoff + a.nbytes <= XLogFileSize}

SenderStepCalls(p) ==
    \/ WalSenderMain(p, FALSE)
    \/ InitWalSnd(p)
    \/ InitWalSndAttach(p)
    \/ WalSndHandshake(p)
    \/ \E cmd \in ReadCommands : HandleReplicationCommand(p, cmd, TRUE)
    \/ PublishStartPoint(p)
    \/ WalSndLoop(p, TRUE)
    \/ XLogSend(p)
    \/ \E io \in IOs : XLogRead(p, io)
    \/ XLogReadCheck(p)
    \/ \E a \in ReadArgs : CallXLogRead(p, a.recptr, a.nbytes)
    \/ WalSndKill(p)
    \/ WalSndKillDisown(p)
    \/ ProcExit(p)

NextCalls == \E p \in Procs : SenderStepCalls(p)

SpecCalls == InitCalls /\ [][NextCalls]_vars

(***************************************************************************)
(* The stream of 'd' messages.                                             *)
(***************************************************************************)
\* (L, XLogFileSize) and (L+1, 0) name the same byte
Norm(ptr) ==
    IF ptr.xrecoff = XLogFileSize THEN Ptr(ptr.xlogid + 1, 0) ELSE ptr

\* the senders that have a 'd' message on the wire in the current call
Framing == {p \in Procs : hist[p].frame.valid}

\* C1: every 'd' message starts where the previous one of the stream ended,
\* the first one at the start point of START_REPLICATION, with
\* (L, XLogFileSize) read as (L+1, 0); its payload runs forward from there,
\* so no byte is skipped or sent twice
C1_Contiguous ==
    \A p \in Framing :
        LET f == hist[p].frame
        IN  /\ Norm(f.dataStart) = Norm(f.prevEnd)
            /\ FrameEnd(f) = f.endptr
            /\ XLByteLE(f.dataStart, FrameEnd(f))

\* a message that follows another one across a log file boundary
C1_Witness ==
    \E p \in Framing :
        LET f == hist[p].frame
        IN  /\ f.prevEnd = Ptr(0, XLogFileSize)
            /\ f.prevEnd # hist[p].startPoint
            /\ f.dataStart = Ptr(1, 0)
            /\ f.nbytes > 0

\* C2: the payload of a 'd' message ends at or before its walEnd, walEnd is
\* the flush pointer XLogSend read at the start of the call, and so nothing
\* at or beyond the current flush pointer is on the wire
C2_WithinFlushed ==
    \A p \in Framing :
        LET f == hist[p].frame
        IN  /\ XLByteLE(FrameEnd(f), f.walEnd)
            /\ f.walEnd = f.flushAtCall
            /\ XLByteLE(f.walEnd, flushPos)

\* a message that stops short of its walEnd while WAL has been flushed since
C2_Witness ==
    \E p \in Framing :
        LET f == hist[p].frame
        IN  /\ XLByteLT(FrameEnd(f), f.walEnd)
            /\ XLByteLT(f.walEnd, flushPos)

\* C3: the payload of a 'd' message stays in the log file of its dataStart,
\* and a message that does not end at its walEnd (caughtup is false) ends
\* on a page boundary
C3_FileAndPage ==
    \A p \in Framing :
        LET f == hist[p].frame
        IN  /\ f.endptr.xlogid = f.dataStart.xlogid
            /\ FrameEnd(f).xrecoff <= XLogFileSize
            /\ f.caughtup <=> FrameEnd(f) = f.walEnd
            /\ FrameEnd(f) # f.walEnd => FrameEnd(f).xrecoff % XLOG_BLCKSZ = 0

\* a message cut at the end of the log file, short of a walEnd in the next
C3_Witness ==
    \E p \in Framing :
        LET f == hist[p].frame
        IN  /\ ~f.caughtup
            /\ f.dataStart.xrecoff % XLOG_BLCKSZ # 0
            /\ FrameEnd(f).xrecoff = XLogFileSize
            /\ f.walEnd.xlogid = f.dataStart.xlogid + 1

\* C4: while a sender holds a slot, the sentPtr it writes there never goes
\* back: (0, 0) at InitWalSnd, the start point, then the end of each message
C4_SlotSentPtrMonotone ==
    [][\A s \in Slots :
           (walsnds[s].pid # 0 /\ walsnds'[s].pid = walsnds[s].pid)
               => XLByteLE(walsnds[s].sentPtr, walsnds'[s].sentPtr)]_vars

\* a slot whose sentPtr has gone from the start point into the next log file
C4_Witness ==
    \E p \in Procs :
        /\ MyWalSnd[p] # 0
        /\ walsnds[MyWalSnd[p]].pid = p
        /\ hist[p].started
        /\ hist[p].startPoint.xlogid = 0
        /\ walsnds[MyWalSnd[p]].sentPtr.xlogid = 1
        /\ walsnds[MyWalSnd[p]].sentPtr.xrecoff > 0


(***************************************************************************)
(* The slots.                                                              *)
(***************************************************************************)
\* p has claimed slot s in InitWalSnd and has not yet released it in
\* WalSndKill, judged by where p is in its code
Holds(p, s) ==
    \/ pc[p] = "OwnLatch" /\ scan[p] = s
    \/ /\ MyWalSnd[p] = s
       /\ pc[p] \notin {"absent", "DisownLatch", "exit", "exited"}

Holders(s) == {p \in Procs : Holds(p, s)}

\* the process was ended by SIGQUIT
Quit(p) == pc[p] = "exited" /\ exitCode[p] = 2

\* C5 as stated: a slot has at most one holder, its pid is not 0 exactly
\* when a live process holds it, and every way of ending a sender, SIGQUIT
\* included, leaves the pid of its slot 0
C5_Original ==
    \A s \in Slots :
        /\ Cardinality(Holders(s)) <= 1
        /\ walsnds[s].pid # 0 <=> Holders(s) # {}
        /\ walsnds[s].pid # 0 => Holds(walsnds[s].pid, s)

\* C5: a slot has at most one holder, which is the process its pid names;
\* its pid is not 0 exactly when a live process holds it or the process
\* that held it was ended by SIGQUIT; a sender that ends in any other way
\* leaves the pid of its slot 0
C5_SlotOwnership ==
    \A s \in Slots :
        /\ Cardinality(Holders(s)) <= 1
        /\ \A p \in Holders(s) : walsnds[s].pid = p
        /\ walsnds[s].pid # 0 =>
               \/ Holds(walsnds[s].pid, s)
               \/ Quit(walsnds[s].pid)
        /\ \A p \in Procs :
               (pc[p] \in {"DisownLatch", "exit", "exited"} /\ exitCode[p] # 2)
                   => walsnds[s].pid # p

\* a slot taken by a second sender while the first is still on its way out
C5_Witness ==
    \E s \in Slots, p, q \in Procs :
        /\ p # q
        /\ pc[p] = "DisownLatch"
        /\ MyWalSnd[p] = s
        /\ Holds(q, s)
        /\ walsnds[s].pid = q

\* the slot of a sender that pq_flush has told its message is out
SlotOf(p) == walsnds[MyWalSnd[p]]

Publishing == {p \in Procs : /\ MyWalSnd[p] # 0
                             /\ walsnds[MyWalSnd[p]].pid = p
                             /\ hist[p].started}

\* C6 as stated: in every state the sentPtr of the slot is at or beyond the
\* end of every message whose pq_flush has returned success
C6_Original ==
    \A p \in Publishing : XLByteLE(hist[p].flushedEnd, SlotOf(p).sentPtr)

\* C6: the sentPtr of the slot is at or beyond the end of every message
\* whose pq_flush has returned success, except between the return of
\* pq_flush and the write of the slot at the end of the same XLogSend call,
\* where it is the start of the message just flushed
C6_SlotCoversFlushed ==
    \A p \in Publishing :
        IF pc[p] = "XLogSendUpdate"
        THEN /\ Norm(SlotOf(p).sentPtr) = Norm(hist[p].frame.dataStart)
             /\ hist[p].flushedEnd = FrameEnd(hist[p].frame)
        ELSE XLByteLE(hist[p].flushedEnd, SlotOf(p).sentPtr)

\* a sender back from XLogSend with its message flushed and published
C6_Witness ==
    \E p \in Publishing :
        /\ pc[p] = "sent"
        /\ hist[p].frame.valid
        /\ hist[p].frame.flushed
        /\ hist[p].frame.nbytes > 0
        /\ SlotOf(p).sentPtr = FrameEnd(hist[p].frame)

(***************************************************************************)
(* The ways out of WalSndLoop.                                             *)
(***************************************************************************)
\* C7: when pq_flush fails, XLogSend returns false with sentPtr and the
\* sentPtr and state of the slot as they were when it was called; the
\* sender leaves the loop, sends nothing more and calls proc_exit(0)
C7_FlushFailure ==
    \A p \in Procs :
        hist[p].flushFailed =>
            /\ pc[p] \in {"break", "WalSndKill", "DisownLatch", "exit"}
            /\ ~hist[p].afterFail
            /\ hist[p].last = "d"
            /\ sentPtr[p] = hist[p].entry.sentPtr
            /\ pc[p] \in {"break", "WalSndKill"} =>
                   /\ SlotOf(p).sentPtr = hist[p].entry.slotSentPtr
                   /\ SlotOf(p).state = hist[p].entry.slotState
            /\ pc[p] # "break" => exitCode[p] = 0

\* a sender about to exit after a failed flush of a message with payload
C7_Witness ==
    \E p \in Procs :
        /\ hist[p].flushFailed
        /\ hist[p].frame.nbytes > 0
        /\ pc[p] = "exit"
        /\ exitCode[p] = 0

\* the sender is past the last cycle: SIGUSR2 came, SIGTERM never did, and
\* the CopyDone message is due or out
FinalFlushDone(p) ==
    /\ pc[p] = "CopyDone" \/ hist[p].last = "COPY 0"
    /\ walsender_ready_to_stop[p]
    /\ ~hist[p].gotTerm

\* C8 as stated: without SIGTERM the CopyDone message of the last cycle
\* comes straight after an XLogSend call that reported caughtup, and
\* sentPtr is then equal to the flush pointer that call read
C8_Original ==
    \A p \in Procs :
        FinalFlushDone(p) =>
            /\ xls[p].site = "last cycle"
            /\ caughtup[p]
            /\ sentPtr[p] = xls[p].SendRqstPtr

\* C8: without SIGTERM the CopyDone message of the last cycle comes
\* straight after an XLogSend call that reported caughtup, and sentPtr is
\* then at or beyond the flush pointer that call read: equal to it unless
\* START_REPLICATION named a start point beyond that flush pointer
C8_FinalFlush ==
    \A p \in Procs :
        FinalFlushDone(p) =>
            /\ xls[p].site = "last cycle"
            /\ caughtup[p]
            /\ XLByteLE(xls[p].SendRqstPtr, sentPtr[p])
            /\ XLByteLE(hist[p].startPoint, xls[p].SendRqstPtr)
                   => sentPtr[p] = xls[p].SendRqstPtr

\* the last cycle ends after a message that reached the flush pointer
C8_Witness ==
    \E p \in Procs :
        /\ FinalFlushDone(p)
        /\ pc[p] = "CopyDone"
        /\ XLByteLT(hist[p].startPoint, sentPtr[p])
        /\ sentPtr[p] = flushPos


\* the sender leaves by the normal exit: CopyDone is out and proc_exit(0)
\* has run its callbacks
NormalExitDone(p) ==
    /\ pc[p] = "exit"
    /\ exitCode[p] = 0
    /\ hist[p].last = "COPY 0"

\* C9: a streaming sender that has SIGUSR2 pending while WAL is unsent
\* goes on sending until XLogSend reports caughtup, then sends CopyDone and
\* exits with status 0 (SIGTERM may cut the sending short)
C9_FinalFlushCompletes ==
    \A p \in Procs :
        (walsender_ready_to_stop[p] /\ InLoop(p) /\ XLByteLT(sentPtr[p], flushPos))
            ~> (NormalExitDone(p) /\ (caughtup[p] \/ hist[p].gotTerm))

\* in the last cycle a message is out and WAL is still unsent
C9_Witness ==
    \E p \in Procs :
        /\ walsender_ready_to_stop[p]
        /\ ~hist[p].gotTerm
        /\ pc[p] = "sent"
        /\ xls[p].site = "last cycle"
        /\ hist[p].frame.valid
        /\ ~caughtup[p]
        /\ XLByteLT(sentPtr[p], flushPos)

\* C10: a streaming sender that gets SIGTERM, and no SIGUSR2, sends at most
\* the one message of the iteration it is in, then CopyDone, and exits with
\* status 0, whatever WAL is left unsent
C10_TermStopsStream ==
    /\ [](\A p \in Procs :
              (hist[p].gotTerm /\ ~walsender_ready_to_stop[p])
                  => hist[p].dAfterTerm <= 1)
    /\ \A p \in Procs :
           (hist[p].gotTerm /\ InLoop(p))
               ~> (/\ NormalExitDone(p)
                   /\ walsender_ready_to_stop[p] \/ hist[p].dAfterTerm <= 1)

\* the sender exits on SIGTERM, one message later, with WAL left unsent
C10_Witness ==
    \E p \in Procs :
        /\ NormalExitDone(p)
        /\ hist[p].gotTerm
        /\ ~walsender_ready_to_stop[p]
        /\ hist[p].dAfterTerm = 1
        /\ XLByteLT(sentPtr[p], flushPos)

(***************************************************************************)
(* SIGTERM in either phase.                                                *)
(***************************************************************************)
\* C11 as stated: once SIGTERM is delivered, in the handshake or in
\* WalSndLoop, the sender in the end closes the connection and exits with
\* status 0
C11_Original ==
    \A p \in Procs :
        hist[p].gotTerm ~> (pc[p] = "exit" /\ exitCode[p] = 0)

(***************************************************************************)
(* InitWalSnd without a free slot.                                         *)
(***************************************************************************)
\* the senders that hold a slot
Attached == {p \in Procs : \E s \in Slots : Holds(p, s)}

\* p is in InitWalSnd's scan and takes a step
ScanStep(p) == pc[p] = "InitWalSnd" /\ (pc'[p] # pc[p] \/ scan'[p] # scan[p])

\* p leaves InitWalSnd with the FATAL error of line 624
ScanFails(p) == ScanStep(p) /\ pc'[p] # "InitWalSnd" /\ pc'[p] # "OwnLatch"

\* C12: InitWalSnd fails with "number of requested standby connections
\* exceeds max_wal_senders" only after it has passed every slot, and it
\* never takes a slot while every slot has a pid, which is at once in a
\* table of no slots; it takes the slot it looks at if that one is free;
\* the failure changes no slot and no latch, leaves MyWalSnd NULL and goes
\* to exit(1) without WalSndKill; and no more senders hold slots than
\* there are slots
C12_TooManySenders ==
    /\ [](Cardinality(Attached) <= Cardinality(Slots))
    /\ [][\A p \in Procs :
              /\ ScanFails(p) =>
                     /\ scan[p] = Cardinality(Slots) + 1
                     /\ walsnds' = walsnds
                     /\ latch' = latch
                     /\ MyWalSnd'[p] = 0
                     /\ pc'[p] = "exit"
                     /\ exitCode'[p] = 1
                     /\ hist'[p].last = "E"
              /\ (ScanStep(p) /\ \A s \in Slots : walsnds[s].pid # 0) =>
                     /\ ScanFails(p) \/ scan'[p] = scan[p] + 1
                     /\ walsnds' = walsnds
              /\ (ScanStep(p) /\ scan[p] \in Slots /\ walsnds[scan[p]].pid = 0) =>
                     /\ pc'[p] = "OwnLatch"
                     /\ walsnds'[scan[p]].pid = p]_vars

\* a sender has failed in InitWalSnd while another holds the only slot
C12_Witness ==
    \E p, q \in Procs :
        /\ pc[p] = "exit"
        /\ exitCode[p] = 1
        /\ MyWalSnd[p] = 0
        /\ scan[p] = Cardinality(Slots) + 1
        /\ Slots # {}
        /\ \A s \in Slots : Holds(q, s) /\ walsnds[s].pid = q

(***************************************************************************)
(* The messages of the handshake and of the stream.                        *)
(***************************************************************************)
\* the sender is in WalSndHandshake
InHandshake(p) == pc[p] \in {"WalSndHandshake", "pq_getbyte"}

\* the sender has left WalSndHandshake for WalSndLoop
Streaming(p) == pc[p] \in {"publish", "CopyDone", "break"} \/ InLoop(p)

\* C13: 'W' is sent once at most, by START_REPLICATION and by nothing
\* else; no 'd' message goes before it and no reply of the handshake
\* ('T', 'D', 'C', 'Z') after it; a sender is past the handshake only after
\* START_REPLICATION, while IDENTIFY_SYSTEM and BASE_BACKUP send their reply
\* and leave the sender in the handshake
C13_CopyBothOnce ==
    \A p \in Procs :
        /\ hist[p].nW <= 1
        /\ ~hist[p].misplaced
        /\ hist[p].nW = 1 <=> hist[p].started
        /\ hist[p].started => hist[p].cmd = "START_REPLICATION"
        /\ Streaming(p) => hist[p].nW = 1
        /\ InHandshake(p) => hist[p].nW = 0
        /\ (pc[p] = "WalSndHandshake" /\ hist[p].cmd = "IDENTIFY_SYSTEM")
               => hist[p].last = "TDCZ"
        /\ (pc[p] = "WalSndHandshake" /\ hist[p].cmd = "BASE_BACKUP")
               => hist[p].last = "CZ"
        /\ hist[p].frame.valid => hist[p].nW = 1

\* a 'd' message is out on a connection that has seen 'W'
C13_Witness ==
    \E p \in Procs :
        /\ pc[p] = "sent"
        /\ hist[p].frame.valid
        /\ hist[p].last = "d"
        /\ hist[p].nW = 1
        /\ hist[p].cmd = "START_REPLICATION"

(***************************************************************************)
(* The standby leaves.                                                     *)
(***************************************************************************)
\* p reads the connection, in WalSndHandshake or in CheckClosedConnection,
\* finds the standby's 'X', EOF or a stray byte, and goes on from there
ReadsClose(p) ==
    /\ pc[p] \in {"pq_getbyte", "CheckClosedConnection"}
    /\ client[p] # "up"
    /\ pc'[p] \notin {pc[p], "exited"}

\* the postmaster is dead: exit(1) at line 197, before the byte is looked at
PostmasterDied(p) ==
    /\ pc[p] = "pq_getbyte"
    /\ exitCode'[p] = 1
    /\ hist'[p] = hist[p]

\* C14: in the handshake and in the probe of the streaming loop, 'X' or
\* EOF makes the sender call proc_exit(0) and any other byte is a FATAL
\* error reported to the standby; after that read no 'd' message and no
\* other message goes out, and WalSndKill has released the slot when the
\* process exits
C14_ClientClose ==
    /\ [][\A p \in Procs :
              ReadsClose(p) =>
                  \/ PostmasterDied(p)
                  \/ /\ hist'[p].closed = client[p]
                     /\ pc'[p] = "WalSndKill"
                     /\ walsnds' = walsnds]_vars
    /\ [](\A p \in Procs :
              hist[p].closed # "none" =>
                  /\ pc[p] \in {"WalSndKill", "DisownLatch", "exit"}
                  /\ ~hist[p].afterClose
                  /\ hist[p].closed \in {"X", "eof"} =>
                         exitCode[p] = 0 /\ hist[p].last # "E"
                  /\ hist[p].closed = "junk" =>
                         exitCode[p] = 1 /\ hist[p].last = "E"
                  /\ pc[p] = "exit" =>
                         /\ MyWalSnd[p] = 0
                         /\ \A s \in Slots : walsnds[s].pid # p)

\* a streaming sender has found EOF in its probe, after 'd' messages, and
\* is about to exit with its slot released
C14_Witness ==
    \E p \in Procs :
        /\ hist[p].closed = "eof"
        /\ hist[p].last = "d"
        /\ pc[p] = "exit"
        /\ exitCode[p] = 0
        /\ \A s \in Slots : walsnds[s].pid = 0

(***************************************************************************)
(* The watermark check after the read.                                     *)
(***************************************************************************)
\* the process has left XLogRead with the error that the segment was removed
WalRemoved(p) == hist[p].rd.err = "WAL_REMOVED"

\* C15: when XLogRead's loop is done and the lastRemoved watermark is at or
\* beyond the segment of the first byte asked for, XLogRead fails with the
\* error that the segment was removed; from then on the process is on its way
\* out: the buffer goes into no 'd' message, the last message is the error,
\* sentPtr is what it was when XLogSend was entered, and no slot's sentPtr
\* changes
C15_WalRemoved ==
    /\ [](\A p \in Procs :
              WalRemoved(p) =>
                  /\ pc[p] \in {"WalSndKill", "DisownLatch", "exit"}
                  /\ hist[p].last = "E"
                  /\ ~hist[p].frame.valid
                  /\ sentPtr[p] = hist[p].entry.sentPtr
                  /\ MyWalSnd[p] # 0 =>
                         SlotOf(p).sentPtr = hist[p].entry.slotSentPtr)
    /\ [][\A p \in Procs :
              /\ ( /\ pc[p] = "XLogRead"
                   /\ xls[p].nbytes = 0
                   /\ Removed(XLByteToSeg(xls[p].startptr), lastRemoved)
                   /\ pc'[p] \notin {pc[p], "exited"} )
                 => WalRemoved(p)'
              /\ WalRemoved(p) =>
                     \A s \in Slots : walsnds'[s].sentPtr = walsnds[s].sentPtr]_vars

\* a segment was removed while it was read: the loop has filled the buffer,
\* the check has failed, and the process has released its slot
C15_Witness ==
    \E p \in Procs :
        /\ WalRemoved(p)
        /\ xls[p].nbytes = 0
        /\ Len(xls[p].buf) > 0
        /\ pc[p] = "exit"

(***************************************************************************)
(* The rows of pg_stat_get_wal_senders.                                    *)
(***************************************************************************)
\* the slot contents a row reports
RowSlot(row) == [pid |-> row.pid, state |-> row.state, sentPtr |-> row.sentPtr]

\* C16 as stated: the rows come in the order of the slots, every row has a pid
\* that is not 0, and the pid, state and sentPtr of a row were together the
\* contents of its slot at some instant of the call, whatever the senders do
\* to the slots meanwhile
C16_Original ==
    \A k \in 1 .. Len(stat.rows) :
        /\ stat.rows[k].pid # 0
        /\ << stat.rows[k].slot, RowSlot(stat.rows[k]) >> \in stat.seen
        /\ \A j \in 1 .. (k - 1) : stat.rows[j].slot < stat.rows[k].slot

(***************************************************************************)
(* The slice of one message.                                               *)
(***************************************************************************)
\* the slice worked out from sentPtr and the flush pointer req in plain
\* integers: where it starts, where it ends, and whether it reaches req
RefSlice(sent, req) ==
    LET start == IF sent.xrecoff >= XLogFileSize
                 THEN Ptr(sent.xlogid + 1, 0)
                 ELSE sent
        plus == start.xrecoff + MAX_SEND_SIZE
        cut == Ptr(start.xlogid, IF plus < XLogFileSize THEN plus ELSE XLogFileSize)
        reached == \/ req.xlogid < cut.xlogid
                   \/ (req.xlogid = cut.xlogid /\ req.xrecoff <= cut.xrecoff)
        end == IF reached
               THEN req
               ELSE Ptr(cut.xlogid, (cut.xrecoff \div XLOG_BLCKSZ) * XLOG_BLCKSZ)
    IN  [start |-> start, end |-> end, caughtUp |-> reached,
         payloadLen |-> end.xrecoff - start.xrecoff]

\* XLogSend takes the step that fixes a slice
Slicing(p) == pc[p] = "XLogSend" /\ pc'[p] = "XLogRead"

\* C17: whenever XLogSend finds sentPtr before the flush pointer, its slice is
\* the one worked out in plain integers: startptr, endptr, *caughtup and nbytes
\* agree with it; nbytes is not negative, at most MAX_SEND_SIZE, and not 0
\* when *caughtup is false. From a start on a page boundary, more than
\* MAX_SEND_SIZE unsent bytes of one logical file give a message of
\* MAX_SEND_SIZE bytes, and no more than MAX_SEND_SIZE give one message with
\* all of them
C17_SliceIsReference ==
    [][\A p \in Procs :
          Slicing(p) =>
              LET ref == RefSlice(sentPtr[p], flushPos)
                  unsent == flushPos.xrecoff - ref.start.xrecoff
              IN  /\ xls'[p].startptr = ref.start
                  /\ xls'[p].endptr = ref.end
                  /\ caughtup'[p] = ref.caughtUp
                  /\ xls'[p].nbytes = ref.payloadLen
                  /\ ref.payloadLen >= 0
                  /\ ref.payloadLen <= MAX_SEND_SIZE
                  /\ ~ref.caughtUp => ref.payloadLen > 0
                  /\ ( /\ flushPos.xlogid = ref.start.xlogid
                       /\ ref.start.xrecoff % XLOG_BLCKSZ = 0
                       /\ unsent > MAX_SEND_SIZE )
                     => (xls'[p].nbytes = MAX_SEND_SIZE /\ ~caughtup'[p])
                  /\ ( /\ flushPos.xlogid = ref.start.xlogid
                       /\ unsent <= MAX_SEND_SIZE )
                     => (xls'[p].nbytes = unsent /\ caughtup'[p])]_vars

\* the second of two messages from a start point on a page boundary: the
\* first had MAX_SEND_SIZE bytes, this one has the rest and has caught up
C17_Witness ==
    \E p \in Procs :
        /\ hist[p].frame.valid
        /\ hist[p].startPoint.xrecoff % XLOG_BLCKSZ = 0
        /\ hist[p].startPoint.xrecoff < XLogFileSize
        /\ hist[p].frame.dataStart =
               Ptr(hist[p].startPoint.xlogid,
                   hist[p].startPoint.xrecoff + MAX_SEND_SIZE)
        /\ hist[p].frame.nbytes > 0
        /\ hist[p].frame.nbytes < MAX_SEND_SIZE
        /\ hist[p].frame.caughtup

(***************************************************************************)
(* XLogSend with nothing to send.                                          *)
(***************************************************************************)
\* XLogSend is entered with the flush pointer at or behind sentPtr
QuickExit(p) ==
    /\ pc[p] = "XLogSend"
    /\ pc'[p] \notin {pc[p], "exited"}
    /\ XLByteLE(flushPos, sentPtr[p])

\* the sender waits in WalSndLoop and has sent nothing since the CopyBoth
\* response
WaitsUnsent(p) == pc[p] = "WaitLatchOrSocket" /\ hist[p].last = "W"

\* C18: a call of XLogSend that finds the flush pointer at or behind sentPtr
\* returns at once with *caughtup true: it sends no message, does not enter
\* XLogRead, and leaves sentPtr and the slots as they are; so a sender that
\* comes to its wait without having had anything to send, as one started at
\* the flush pointer does, waits with state STREAMING and the start point as
\* sentPtr in its slot
C18_NothingToSend ==
    /\ [][\A p \in Procs :
              QuickExit(p) =>
                  /\ pc'[p] = "sent"
                  /\ caughtup'[p]
                  /\ hist'[p].last = hist[p].last
                  /\ ~hist'[p].frame.valid
                  /\ hist'[p].rd = NoRead
                  /\ sendFile' = sendFile
                  /\ sentPtr' = sentPtr
                  /\ walsnds' = walsnds]_vars
    /\ [](\A p \in Procs :
              WaitsUnsent(p) =>
                  /\ SlotOf(p).state = "STREAMING"
                  /\ SlotOf(p).sentPtr = hist[p].startPoint
                  /\ sentPtr[p] = hist[p].startPoint)

\* a sender started at the flush pointer is in its first wait
C18_Witness ==
    \E p \in Procs :
        /\ WaitsUnsent(p)
        /\ flushPos = hist[p].startPoint
        /\ SlotOf(p).state = "STREAMING"
        /\ SlotOf(p).pid = p

(***************************************************************************)
(* The segment that does not exist.                                        *)
(***************************************************************************)
\* the offsets of the last segment of a logical file, which is never written
Reserved(off) == off >= XLogFileSize

\* C19: no 'd' message starts in the last segment of a logical file or
\* carries a byte of it, XLogRead copies no byte of such a segment, and a
\* call of XLogSend that finds sentPtr at or beyond XLogFileSize in logical
\* file L starts its message at (L+1, 0)
C19_ReservedSkipped ==
    \A p \in Procs :
        /\ hist[p].frame.valid =>
               /\ ~Reserved(hist[p].frame.dataStart.xrecoff)
               /\ \A k \in 1 .. hist[p].frame.nbytes :
                      ~Reserved(hist[p].frame.dataStart.xrecoff + k - 1)
               /\ Reserved(hist[p].entry.sentPtr.xrecoff) =>
                      hist[p].frame.dataStart =
                          Ptr(hist[p].entry.sentPtr.xlogid + 1, 0)
        /\ \A k \in 1 .. Len(xls[p].buf) :
               ~Reserved(xls[p].buf[k].seg * XLogSegSize + xls[p].buf[k].off)

\* a message with payload that follows a sentPtr of (L, XLogFileSize)
C19_Witness ==
    \E p \in Procs :
        /\ hist[p].frame.valid
        /\ hist[p].entry.sentPtr.xrecoff = XLogFileSize
        /\ hist[p].frame.dataStart = Ptr(hist[p].entry.sentPtr.xlogid + 1, 0)
        /\ hist[p].frame.nbytes > 0
        /\ hist[p].nextStart # hist[p].startPoint
        /\ hist[p].startPoint.xrecoff < XLogFileSize

(***************************************************************************)
(* The result of read().                                                   *)
(***************************************************************************)
\* XLogRead calls read() in this step
Reads(p) ==
    /\ pc[p] = "XLogRead"
    /\ Len(hist'[p].rd.reads) = Len(hist[p].rd.reads) + 1

\* the call of read() made in this step: the length asked for and the result
LastRead(p) == hist'[p].rd.reads[Len(hist'[p].rd.reads)]

\* XLogRead raises the error of a failed file access in this step
ReadError(p) ==
    /\ hist'[p].rd.err = "IO_ERROR"
    /\ hist'[p].last = "E"
    /\ pc'[p] = "WalSndKill"
    /\ exitCode'[p] = 1

\* C20 as stated: a read() that returns less than the length asked for, be
\* it a short read, a zero read or an error, makes XLogRead fail
C20_Original ==
    [][\A p \in Procs :
          (Reads(p) /\ LastRead(p).readbytes < LastRead(p).segbytes)
              => ReadError(p)]_vars

\* C20: a read() that returns 0 or an error makes XLogRead fail; a read()
\* that returns some bytes but fewer than asked for does not: the bytes are
\* kept, recptr and the count move by what was read, and the loop goes on to
\* read the rest
C20_ReadFailure ==
    /\ [][\A p \in Procs :
              Reads(p) =>
                  /\ LastRead(p).readbytes <= 0 => ReadError(p)
                  /\ LastRead(p).readbytes > 0 =>
                         /\ pc'[p] = "XLogRead"
                         /\ hist'[p].rd.err = "none"
                         /\ hist'[p].last = hist[p].last
                         /\ xls'[p].nbytes = xls[p].nbytes - LastRead(p).readbytes
                         /\ xls'[p].recptr =
                                XLByteAdvance(xls[p].recptr, LastRead(p).readbytes)
                         /\ Len(xls'[p].buf) =
                                Len(xls[p].buf) + LastRead(p).readbytes]_vars
    /\ [](\A p \in Procs :
              pc[p] \in {"XLogRead", "pq_flush"} =>
                  Len(xls[p].buf) + xls[p].nbytes =
                      NBytes(xls[p].startptr, xls[p].endptr))

\* a message has gone out whose payload was read with a short read
C20_Witness ==
    \E p \in Procs :
        /\ hist[p].frame.valid
        /\ hist[p].frame.flushed
        /\ \E k \in 1 .. Len(hist[p].rd.reads) :
               /\ hist[p].rd.reads[k].readbytes > 0
               /\ hist[p].rd.reads[k].readbytes < hist[p].rd.reads[k].segbytes

(***************************************************************************)
(* One check for all the segments of a read.                               *)
(***************************************************************************)
\* XLogRead returns normally in this step
NormalReturn(p) == pc[p] = "XLogRead" /\ pc'[p] = "pq_flush"

\* the segment files the buffer was filled from
SegsRead(p) ==
    {[log |-> xls[p].buf[k].log, seg |-> xls[p].buf[k].seg] :
         k \in 1 .. Len(xls[p].buf)}

\* C21: whenever XLogRead returns normally, every segment file it has
\* copied bytes from, the second one of a read across a segment boundary and
\* a file kept open from an earlier call included, is above the lastRemoved
\* watermark at the moment of the check after the loop; the watermark only
\* moves up
C21_OneCheckSuffices ==
    /\ [][\A p \in Procs :
              NormalReturn(p) =>
                  \A s \in SegsRead(p) : ~Removed(s, lastRemoved)]_vars
    /\ [][lastRemoved' # lastRemoved => ~Removed(lastRemoved', lastRemoved)]_vars

\* XLogRead has returned normally with bytes from a file that an earlier
\* call had opened, after the watermark has moved
C21_Witness ==
    \E p \in Procs :
        /\ pc[p] = "pq_flush"
        /\ Len(xls[p].buf) > 0
        /\ ~hist[p].rd.opened
        /\ lastRemoved # NoneRemoved
        /\ \A s \in SegsRead(p) : ~Removed(s, lastRemoved)

(***************************************************************************)
(* What XLogRead copies, and its cached file.                              *)
(***************************************************************************)
\* the i-th byte after pos in a logical file: its segment file and its
\* offset in that file
WalByte(pos, i) ==
    [log |-> pos.xlogid,
     seg |-> (pos.xrecoff + i) \div XLogSegSize,
     off |-> (pos.xrecoff + i) % XLogSegSize]

\* C22: after any sequence of calls of XLogRead that have returned normally,
\* for stretches that follow one another, repeat, go back, or cross a segment
\* boundary, the buffer of the last call holds the nbytes bytes from recptr
\* on, each from its own segment file and offset; in every state the process
\* has at most one segment file open, and while one is open sendId and
\* sendSeg name it and sendOff is its file offset
C22_ExactBytes ==
    \A p \in Procs :
        /\ sendFile[p].nopen = (IF sendFile[p].fd >= 0 THEN 1 ELSE 0)
        /\ sendFile[p].fd >= 0 =>
               /\ sendFile[p].path =
                      [log |-> sendFile[p].sendId, seg |-> sendFile[p].sendSeg]
               /\ sendFile[p].sendOff = sendFile[p].pos
        /\ pc[p] = "pq_flush" =>
               /\ Len(xls[p].buf) = xls[p].endptr.xrecoff - xls[p].startptr.xrecoff
               /\ \A k \in 1 .. Len(xls[p].buf) :
                      xls[p].buf[k] = WalByte(xls[p].startptr, k - 1)

\* a call has returned that went back behind the sender's start point, to
\* another segment than the cached one, and crossed a segment boundary with
\* a short read on the way
C22_Witness ==
    \E p \in Procs :
        /\ pc[p] = "pq_flush"
        /\ XLByteLT(xls[p].startptr, sentPtr[p])
        /\ Cardinality(SegsRead(p)) = 2
        /\ Len(hist[p].rd.reads) > 2

(***************************************************************************)
(* The state published at the end of an iteration.                         *)
(***************************************************************************)
\* an iteration of WalSndLoop is completed in this step: line 562 is done
EndsIteration(p) ==
    /\ pc[p] \in {"sent", "CheckClosedConnection"}
    /\ pc'[p] = "WalSndLoop"

\* C23: when an iteration of WalSndLoop completes, the slot's state is
\* STREAMING if the last call of XLogSend in it left caughtup true and
\* CATCHUP if not; WalSndSetState takes the mutex and writes only if the
\* slot held the other value, and in no case changes anything else of the
\* slot table
C23_StatePublished ==
    [][\A p \in Procs :
          EndsIteration(p) =>
              LET state == IF caughtup[p] THEN "STREAMING" ELSE "CATCHUP"
                  s == MyWalSnd[p]
              IN  /\ walsnds'[s].state = state
                  /\ hist'[p].setState =
                         (IF walsnds[s].state = state THEN "same" ELSE "wrote")
                  /\ walsnds' = [walsnds EXCEPT ![s].state = state]]_vars

\* an iteration that sent a message but did not catch up has completed, and
\* WalSndSetState found CATCHUP already in the slot
C23_Witness ==
    \E p \in Procs :
        /\ pc[p] = "WalSndLoop"
        /\ hist[p].setState = "same"
        /\ ~caughtup[p]
        /\ SlotOf(p).state = "CATCHUP"
        /\ hist[p].last = "d"

(***************************************************************************)
(* No wake-up for new WAL is lost.                                         *)
(***************************************************************************)
\* the sender has sent, and pq_flush accepted, everything before ptr that
\* lies at or after its start point
Covered(p, ptr) ==
    \/ XLByteLE(ptr, hist[p].startPoint)
    \/ XLByteLE(ptr, hist[p].flushedEnd)

\* C24: with the writer calling WalSndWakeup after each advance of the flush
\* pointer, and with no timeout on the wait, a streaming sender sends all
\* WAL flushed at or after its start point, wherever in ResetLatch, XLogSend
\* and WaitLatchOrSocket it was when the flush came: from any state where it
\* streams and the flush pointer is ptr, it comes to have sent up to ptr
C24_NoLostWakeup ==
    \A p \in Procs : \A ptr \in WalPtrs :
        (hist[p].started /\ flushPos = ptr) ~> Covered(p, ptr)

\* the flush and its wake-up came between the test of line 538 and the
\* wait: the sender is about to wait with unsent WAL and the latch set
C24_Witness ==
    \E p \in Procs :
        /\ pc[p] = "WaitLatchOrSocket"
        /\ writer = "idle"
        /\ XLByteLT(sentPtr[p], flushPos)
        /\ XLByteLT(hist[p].startPoint, flushPos)
        /\ ~Covered(p, flushPos)
        /\ latch[MyWalSnd[p]].is_set

(***************************************************************************)
(* No signal flag is slept on.                                             *)
(***************************************************************************)
\* one of the flags the handlers of SIGHUP, SIGUSR2 and SIGTERM set
FlagPending(p) ==
    got_SIGHUP[p] \/ walsender_ready_to_stop[p] \/ walsender_shutdown_requested[p]

\* C25: the sender goes from the test of line 538 to WaitLatchOrSocket only
\* with none of got_SIGHUP, walsender_ready_to_stop and
\* walsender_shutdown_requested set; and while it is at the wait with one of
\* them set, by a handler run after the test, its latch is set, so that the
\* wait returns without the timeout
C25_FlagNotSleptOn ==
    /\ [][\A p \in Procs :
              (pc[p] = "sent" /\ pc'[p] = "WaitLatchOrSocket")
                  => (caughtup[p] /\ ~FlagPending(p))]_vars
    /\ [](\A p \in Procs :
              (pc[p] = "WaitLatchOrSocket" /\ FlagPending(p))
                  => (MyWalSnd[p] # 0 /\ latch[MyWalSnd[p]].is_set))

\* SIGTERM came between the test and the wait
C25_Witness ==
    \E p \in Procs :
        /\ pc[p] = "WaitLatchOrSocket"
        /\ walsender_shutdown_requested[p]
        /\ ~got_SIGHUP[p]
        /\ ~walsender_ready_to_stop[p]
        /\ latch[MyWalSnd[p]].is_set

(***************************************************************************)
(* The latch of a free slot.                                               *)
(***************************************************************************)
\* C26 as stated: a slot whose pid is 0 has a latch without an owner, so a
\* process that has claimed a free slot under the mutex finds the latch
\* unowned when it comes to OwnLatch, however WalSndKill of the slot's last
\* holder (pid = 0, then DisownLatch) interleaves with InitWalSnd
C26_Original ==
    /\ \A s \in Slots : walsnds[s].pid = 0 => latch[s].owner_pid = 0
    /\ \A p \in Procs : pc[p] = "OwnLatch" => latch[scan[p]].owner_pid = 0

(***************************************************************************)
(* The payload of a 'd' message.                                           *)
(***************************************************************************)
\* C27 as stated: every 'd' message XLogSend sends carries at least one
\* byte of WAL, whatever sentPtr and the flush pointer ahead of it are, a
\* sentPtr of (L, XLogFileSize) with a flush pointer of (L + 1, 0) included
C27_Original ==
    \A p \in Procs : hist[p].frame.valid => hist[p].frame.nbytes > 0

=============================================================================
